---- MODULE Spec2Model ----
(***************************************************************************)
(* A model of the protobuf3-solidity generator (package generator) and of  *)
(* the Solidity codec it emits.                                            *)
(*                                                                         *)
(* Two call paths exist in the sources for generateMessageDecoder and      *)
(* generateMessageEncoder.  message_generator.go calls the four-argument   *)
(* form (structName, fields, fieldNameMap, b) together with               *)
(* CodecHelperGenerator; that is the form modelled here.                   *)
(*                                                                         *)
(* The generator only prints Solidity text.  The operators below give the  *)
(* meaning of the printed functions: an operator named after a printed     *)
(* function (decode, check_key, decode_field, encode) is the function the  *)
(* generator prints for the schema `fields`.  The ProtobufLib primitives   *)
(* the printed code calls belong to the runtime library and are modelled   *)
(* by the protobuf wire format.                                            *)
(*                                                                         *)
(* Positions are 0-based as in Solidity; byte p of buf is buf[p + 1].      *)
(* uint64 arithmetic is not wrapped: positions never exceed the buffer     *)
(* length, so the printed overflow test (pos + len < pos) is never true.   *)
(***************************************************************************)
EXTENDS Integers, Sequences, FiniteSets, TLC

VARIABLES
    g,                        \* the Generator: its configuration fields
    parameter,                \* request.GetParameter(), each entry already split at "="
    genPc,                    \* "idle", "new", "parsed", "done": position inside the plugin run
    protoFile,                \* the file handed to generateFile (NoFile: none)
    enumDescriptor,           \* the enum handed to generateEnum (NoEnum: none)
    err,                      \* the error returned, as the pieces of its message; Nil = nil
    out,                      \* the pieces generateEnum printed between "{ " and " }"
    fields,                   \* the message's field descriptors, in declaration order
    mode,                     \* "none", "roundtrip" (buf comes from encode) or "raw"
    x,                        \* the instance handed to encode
    encodeCalls,              \* field numbers in the order encode() called encode_<N>
    buf,                      \* the byte buffer handed to decode
    initial_pos,              \* decode's initial_pos argument
    len,                      \* decode's len argument
    pc,                       \* "idle", "init", "encoded", "loop", "done": position inside the codec run
    pos,                      \* decode's cursor
    previous_field_number,    \* decode's previous_field_number
    instance,                 \* decode's instance (a memory struct, mutated in place)
    success,                  \* decode's first return value
    keys,                     \* history: the field numbers of the keys decode_key returned
    defaultSeen,              \* history: decode_field stored a singular field's zero value
    fn,                       \* the pure function being applied ("none": none)
    arg,                      \* its argument
    ret,                      \* its result, once fnPc = "returned"; before, NoResult
    fnPc,                     \* "idle", "call", a position inside the function, "returned"
    asm,                      \* the locals of the assembly block being run (NoLocals: none)
    request,                  \* per run of Generate: the CodeGeneratorRequest
    run                       \* per run of Generate: its generator, position, response and result

genVars == <<g, parameter, genPc, protoFile, enumDescriptor, err, out>>

codecVars == <<fields, mode, x, encodeCalls, buf, initial_pos, len, pc, pos,
               previous_field_number, instance, success, keys, defaultSeen>>

fnVars == <<fn, arg, ret, fnPc, asm>>

runVars == <<request, run>>

vars == <<genVars, codecVars, fnVars, runVars>>

----------------------------------------------------------------------------
(* Bounds of the model *)

\* longest raw buffer handed to decode
MaxBufLen == 4
\* decode is called with len = Len(buf) - d for d in 0..MaxSlack
MaxSlack == 1
\* longest string / bytes value of an encoded instance
MaxStrLen == 1
\* largest integer value of an encoded instance
MaxValue == 2
\* most elements of a packed array of an encoded instance
MaxPayload == 128

\* largest field number of a validated message
MaxFieldNumber == 3
\* most fields of a validated message
MaxFields == 2
\* most values of an enum
MaxEnumValues == 3
\* largest number of an enum value
MaxEnumNumber == 2

\* longest name over NameAlphabet handed to sanitizeKeyword
MaxNameLen == 4

\* most fields of a message handed to ProcessFieldNames
MaxNamedFields == 3

\* The bytes raw buffers are made of: the values 0 and 1, and the keys
\* (1, Varint) = 8, (1, LengthDelimited) = 10 and (2, LengthDelimited) = 18.
ByteAlphabet == {0, 1, 8, 10, 18}

\* The bytes string and bytes values of encoded instances are made of.
ValueAlphabet == {1}

----------------------------------------------------------------------------
(* Field descriptors *)

\* The names of the fields of the model, by field number.
FieldNames == <<"a", "b", "c", "d", "e", "f">>

Field(n, t) ==
    [name |-> FieldNames[n], number |-> n, type |-> t, label |-> "optional",
     packed |-> FALSE]

\* "repeated <t> <name> = <n> [packed = true];" (the proto3 default for numeric
\* types).
PackedField(n, t) == [Field(n, t) EXCEPT !.label = "repeated", !.packed = TRUE]

\* The schemas the codec is exercised on: every singular type the printed
\* decode_field has a branch for, two types it has none for (uint64 and an
\* enum), a packed array, a message declared out of numeric order and a
\* message with a gap.
CodecSchemas ==
    { <<Field(1, "bool")>>, <<Field(1, "uint32")>>, <<Field(1, "int32")>>,
      <<Field(1, "string")>>, <<Field(1, "bytes")>>, <<Field(1, "fixed32")>>,
      <<Field(1, "uint64")>>, <<Field(1, "enum")>>, <<PackedField(1, "uint32")>>,
      <<Field(1, "bool"), Field(2, "string")>>,
      <<Field(2, "string"), Field(1, "bool")>>,
      <<Field(1, "uint32"), Field(3, "bool")>> }

isFieldRepeated(field) == field.label = "repeated"

isFieldPacked(field) == field.packed

FieldNumbers(fs) == {fs[i].number : i \in 1..Len(fs)}

\* The Solidity zero value of a struct member of the field's type.
DefaultValue(field) ==
    CASE isFieldRepeated(field) -> <<>>
      [] field.type = "bool" -> FALSE
      [] field.type \in {"string", "bytes"} -> <<>>
      [] OTHER -> 0

\* The printed dispatchers test "if (field_number == N)" field by field in
\* declaration order: the first field with the number is the one that answers.
FieldByNumber(fs, n) ==
    fs[CHOOSE i \in 1..Len(fs) :
          fs[i].number = n /\ \A j \in 1..(i - 1) : fs[j].number # n]

\* "<struct> memory instance;": every member holds its zero value.
DefaultInstance(fs) == [n \in FieldNumbers(fs) |-> DefaultValue(FieldByNumber(fs, n))]

----------------------------------------------------------------------------
(* Pure functions of the generator, applied to inputs drawn in FnInit.      *)
(* A name is the sequence of its characters.                                *)

\* A run-time panic inside a function: its result is [panic |-> TRUE].
Panicked == [panic |-> TRUE, value |-> <<>>]

Returned(v) == [panic |-> FALSE, value |-> v]

\* The function has not returned yet.
NoResult == [panic |-> FALSE, value |-> <<>>]

\* solidityReservedKeywords
solidityReservedKeywords ==
  {
    <<"a", "b", "s", "t", "r", "a", "c", "t">>, <<"a", "d", "d", "r", "e", "s", "s">>,
    <<"a", "f", "t", "e", "r">>, <<"a", "l", "i", "a", "s">>,
    <<"a", "n", "o", "n", "y", "m", "o", "u", "s">>, <<"a", "p", "p", "l", "y">>,
    <<"a", "s", "s", "e", "m", "b", "l", "y">>, <<"a", "u", "t", "o">>,
    <<"b", "o", "o", "l">>, <<"b", "r", "e", "a", "k">>, <<"b", "y", "t", "e">>,
    <<"b", "y", "t", "e", "s">>, <<"c", "a", "l", "l", "d", "a", "t", "a">>,
    <<"c", "a", "s", "e">>, <<"c", "a", "t", "c", "h">>,
    <<"c", "o", "n", "s", "t", "a", "n", "t">>,
    <<"c", "o", "n", "s", "t", "r", "u", "c", "t", "o", "r">>,
    <<"c", "o", "n", "t", "i", "n", "u", "e">>,
    <<"c", "o", "n", "t", "r", "a", "c", "t">>, <<"c", "o", "p", "y", "o", "f">>,
    <<"d", "a", "y", "s">>, <<"d", "e", "f", "a", "u", "l", "t">>,
    <<"d", "e", "f", "i", "n", "e">>, <<"d", "e", "l", "e", "t", "e">>, <<"d", "o">>,
    <<"e", "l", "s", "e">>, <<"e", "m", "i", "t">>, <<"e", "n", "u", "m">>,
    <<"e", "t", "h", "e", "r">>, <<"e", "v", "e", "n", "t">>,
    <<"e", "x", "t", "e", "r", "n", "a", "l">>,
    <<"f", "a", "l", "l", "b", "a", "c", "k">>, <<"f", "a", "l", "s", "e">>,
    <<"f", "i", "n", "a", "l">>, <<"f", "i", "n", "n", "e", "y">>,
    <<"f", "i", "x", "e", "d">>, <<"f", "o", "r">>, <<"f", "r", "o", "m">>,
    <<"f", "u", "n", "c", "t", "i", "o", "n">>, <<"g", "w", "e", "i">>,
    <<"h", "e", "x">>, <<"h", "o", "u", "r", "s">>, <<"i", "f">>,
    <<"i", "m", "p", "l", "e", "m", "e", "n", "t", "s">>,
    <<"i", "m", "p", "o", "r", "t">>, <<"i", "n">>,
    <<"i", "n", "d", "e", "x", "e", "d">>, <<"i", "n", "l", "i", "n", "e">>,
    <<"i", "n", "t", "e", "r", "f", "a", "c", "e">>,
    <<"i", "n", "t", "e", "r", "n", "a", "l">>, <<"i", "s">>, <<"l", "e", "t">>,
    <<"l", "i", "b", "r", "a", "r", "y">>, <<"m", "a", "p", "p", "i", "n", "g">>,
    <<"m", "a", "t", "c", "h">>, <<"m", "e", "m", "o", "r", "y">>,
    <<"m", "i", "n", "u", "t", "e", "s">>, <<"m", "o", "d", "i", "f", "i", "e", "r">>,
    <<"n", "e", "w">>, <<"n", "u", "l", "l">>, <<"o", "f">>,
    <<"o", "v", "e", "r", "r", "i", "d", "e">>, <<"p", "a", "c", "k", "a", "g", "e">>,
    <<"p", "a", "y", "a", "b", "l", "e">>, <<"p", "r", "a", "g", "m", "a">>,
    <<"p", "r", "i", "v", "a", "t", "e">>, <<"p", "u", "b", "l", "i", "c">>,
    <<"p", "u", "r", "e">>, <<"r", "e", "c", "e", "i", "v", "e">>,
    <<"r", "e", "f", "e", "r", "e", "n", "c", "e">>, <<"r", "e", "t", "u", "r", "n">>,
    <<"r", "e", "t", "u", "r", "n", "s">>, <<"r", "e", "v", "e", "r", "t">>,
    <<"s", "e", "c", "o", "n", "d", "s">>, <<"s", "e", "l", "e", "c", "t", "o", "r">>,
    <<"s", "e", "l", "f">>, <<"s", "t", "o", "r", "a", "g", "e">>,
    <<"s", "t", "r", "i", "n", "g">>, <<"s", "t", "r", "u", "c", "t">>,
    <<"s", "u", "p", "e", "r">>, <<"s", "w", "i", "t", "c", "h">>,
    <<"s", "z", "a", "b", "o">>, <<"t", "h", "r", "o", "w">>, <<"t", "r", "u", "e">>,
    <<"t", "r", "y">>, <<"t", "y", "p", "e">>, <<"t", "y", "p", "e", "d", "e", "f">>,
    <<"t", "y", "p", "e", "o", "f">>, <<"u", "i", "n", "t">>,
    <<"u", "i", "n", "t", "8">>, <<"u", "i", "n", "t", "1", "6">>,
    <<"u", "i", "n", "t", "2", "4">>, <<"u", "i", "n", "t", "3", "2">>,
    <<"u", "i", "n", "t", "4", "0">>, <<"u", "i", "n", "t", "4", "8">>,
    <<"u", "i", "n", "t", "5", "6">>, <<"u", "i", "n", "t", "6", "4">>,
    <<"u", "i", "n", "t", "7", "2">>, <<"u", "i", "n", "t", "8", "0">>,
    <<"u", "i", "n", "t", "8", "8">>, <<"u", "i", "n", "t", "9", "6">>,
    <<"u", "i", "n", "t", "1", "0", "4">>, <<"u", "i", "n", "t", "1", "1", "2">>,
    <<"u", "i", "n", "t", "1", "2", "0">>, <<"u", "i", "n", "t", "1", "2", "8">>,
    <<"u", "i", "n", "t", "1", "3", "6">>, <<"u", "i", "n", "t", "1", "4", "4">>,
    <<"u", "i", "n", "t", "1", "5", "2">>, <<"u", "i", "n", "t", "1", "6", "0">>,
    <<"u", "i", "n", "t", "1", "6", "8">>, <<"u", "i", "n", "t", "1", "7", "6">>,
    <<"u", "i", "n", "t", "1", "8", "4">>, <<"u", "i", "n", "t", "1", "9", "2">>,
    <<"u", "i", "n", "t", "2", "0", "0">>, <<"u", "i", "n", "t", "2", "0", "8">>,
    <<"u", "i", "n", "t", "2", "1", "6">>, <<"u", "i", "n", "t", "2", "2", "4">>,
    <<"u", "i", "n", "t", "2", "3", "2">>, <<"u", "i", "n", "t", "2", "4", "0">>,
    <<"u", "i", "n", "t", "2", "4", "8">>, <<"u", "i", "n", "t", "2", "5", "6">>,
    <<"u", "n", "c", "h", "e", "c", "k", "e", "d">>, <<"u", "s", "i", "n", "g">>,
    <<"v", "a", "r">>, <<"v", "i", "e", "w">>, <<"v", "i", "r", "t", "u", "a", "l">>,
    <<"w", "e", "e", "k", "s">>, <<"w", "e", "i">>, <<"w", "h", "i", "l", "e">>,
    <<"y", "e", "a", "r", "s">>
  }

DigitChars == <<"0", "1", "2", "3", "4", "5", "6", "7", "8", "9">>

\* fmt.Sprintf("%d", n) for n >= 0: the decimal digits of n.
RECURSIVE DigitsOf(_)
DigitsOf(n) ==
    IF n < 10 THEN <<DigitChars[n + 1]>>
    ELSE DigitsOf(n \div 10) \o <<DigitChars[(n % 10) + 1]>>

IsDigit(c) == \E i \in 1..Len(DigitChars) : DigitChars[i] = c

\* strings.HasPrefix(s, prefix)
HasPrefix(s, prefix) == Len(s) >= Len(prefix) /\ SubSeq(s, 1, Len(prefix)) = prefix

\* strconv.Atoi(s) returns no error: an optional sign and at least one digit
\* (the names of the model are too short to overflow an int).
AtoiOk(s) ==
    LET digits == IF Len(s) > 0 /\ s[1] \in {"+", "-"} THEN Tail(s) ELSE s
    IN  Len(digits) > 0 /\ \A i \in 1..Len(digits) : IsDigit(digits[i])

\* sanitizeKeyword(name).  name[4:] panics when the name is shorter than four
\* bytes (slice bounds out of range).
sanitizeKeyword(name) ==
    IF HasPrefix(name, <<"_">>) THEN Returned(name)
    ELSE IF name \in solidityReservedKeywords THEN Returned(<<"_">> \o name)
    ELSE IF (HasPrefix(name, <<"u", "i", "n", "t">>) \/ HasPrefix(name, <<"i", "n", "t">>))
            /\ Len(name) < 4
         THEN Panicked
    ELSE IF (HasPrefix(name, <<"u", "i", "n", "t">>) \/ HasPrefix(name, <<"i", "n", "t">>))
            /\ AtoiOk(SubSeq(name, 5, Len(name)))
         THEN Returned(<<"_">> \o name)
    ELSE IF Len(name) > 0 /\ IsDigit(name[1]) THEN Returned(<<"_">> \o name)
    ELSE Returned(name)

\* ProcessFieldNames, first pass: the sanitized name of one field.  A name
\* that begins with "_" keeps its spelling.
FirstPassName(originalName) ==
    LET r == sanitizeKeyword(originalName)
    IN  IF r.panic THEN r
        ELSE IF HasPrefix(originalName, <<"_">>) THEN Returned(originalName)
        ELSE r

\* ProcessFieldNames, second pass, the "for { ... }" loop of one field:
\* earlier are the final names of the fields before it, candidate is
\* field.sanitizedName.
RECURSIVE UniqueFieldName(_, _, _, _)
UniqueFieldName(earlier, baseName, candidate, counter) ==
    IF \A j \in 1..Len(earlier) : earlier[j] # candidate THEN candidate
    ELSE UniqueFieldName(earlier, baseName,
                         IF HasPrefix(baseName, <<"_">>)
                         THEN baseName \o <<"_">> \o DigitsOf(counter)
                         ELSE <<"_">> \o baseName \o <<"_">> \o DigitsOf(counter),
                         counter + 1)

\* ProcessFieldNames, second pass ("for i := range allFields"): done holds
\* the final names of the fields already visited, rest the first-pass names
\* of the fields from i on.
RECURSIVE SecondPass(_, _)
SecondPass(done, rest) ==
    IF rest = <<>> THEN done
    ELSE SecondPass(Append(done, UniqueFieldName(done, Head(rest), Head(rest), 1)),
                    Tail(rest))

\* fieldNameMap: the last field with a number is the one whose name stays.
RECURSIVE FieldNameMap(_, _)
FieldNameMap(fs, names) ==
    IF fs = <<>> THEN <<>>
    ELSE (fs[Len(fs)].number :> names[Len(fs)])
         @@ FieldNameMap(SubSeq(fs, 1, Len(fs) - 1), SubSeq(names, 1, Len(fs) - 1))

\* ProcessFieldNames(fields): field number -> final name.
ProcessFieldNames(fs) ==
    LET first == [i \in 1..Len(fs) |-> FirstPassName(fs[i].name)]
    IN  IF \E i \in 1..Len(fs) : first[i].panic THEN Panicked
        ELSE Returned(FieldNameMap(fs, SecondPass(<<>>, [i \in 1..Len(fs) |-> first[i].value])))

----------------------------------------------------------------------------
(* The Generator: construction and ParseParameters *)

\* A nil error.  An error is the sequence of the pieces its message is
\* concatenated (or formatted) from.
Nil == <<>>

\* A run-time panic of the plugin (index out of range).
Panic == <<"panic: index out of range">>

\* New(request, versionString): the configuration a fresh Generator holds.
New ==
    [ enumMaxes                   |-> <<>>,
      helperMessages              |-> <<>>,
      mapFieldMappings            |-> <<>>,
      enumMappings                |-> <<>>,
      messageMappings             |-> <<>>,
      googleProtobufGenerated     |-> FALSE,
      licenseString               |-> "CC0",
      compileFlag                 |-> "compile",
      generateFlag                |-> "decoder",
      strictFieldNumberValidation |-> FALSE,
      strictEnumValidation        |-> TRUE,
      allowEmptyPackedArrays      |-> FALSE,
      allowNonMonotonicFields     |-> FALSE,
      protobufLibImportPath       |-> "@protobuf3-solidity-lib/contracts/ProtobufLib.sol" ]

toCompileFlag(s) ==
    IF s \in {"link", "compile"}
    THEN [flag |-> s, err |-> Nil]
    ELSE [flag |-> "compile",
          err |-> <<"unknown compile flag ", s, ", allowed values are <link, compile>">>]

toGenerateFlag(s) ==
    IF s \in {"all", "decoder", "encoder"}
    THEN [flag |-> s, err |-> Nil]
    ELSE [flag |-> "all",
          err |-> <<"unknown generate flag ", s,
                    ", allowed values are <all, decoder, encoder>">>]

\* The body of the switch for one boolean option.
ParseBool(gen, member, key, value) ==
    IF value \in {"true", "false"}
    THEN [g |-> [gen EXCEPT ![member] = (value = "true")], err |-> Nil]
    ELSE [g |-> gen, err |-> <<key, " must be 'true' or 'false'">>]

\* strings.HasSuffix(value, ".sol") for the import paths of the model.
HasSolSuffix(value) == value \in {"ProtobufLib.sol"}

\* value += ".sol" for the import paths of the model.
AppendSol(value) == IF value = "ProtobufLib" THEN "ProtobufLib.sol" ELSE value

\* One pass through the body of ParseParameters' loop.  keyvalue is
\* strings.Split(parameter, "="); keyvalue[1] of the source is keyvalue[2] here.
ParseParameter(gen, keyvalue) ==
    IF Len(keyvalue) < 2 THEN [g |-> gen, err |-> Panic]
    ELSE
    LET key   == keyvalue[1]
        value == keyvalue[2]
    IN  CASE key = "license" ->
               [g |-> [gen EXCEPT !.licenseString = value], err |-> Nil]
          [] key = "compile" ->
               LET r == toCompileFlag(value)
               IN  IF r.err # Nil THEN [g |-> gen, err |-> r.err]
                   ELSE [g |-> [gen EXCEPT !.compileFlag = r.flag],
                         err |-> IF r.flag = "link"
                                 THEN <<"unimplemented feature ", r.flag>>
                                 ELSE Nil]
          [] key = "generate" ->
               LET r == toGenerateFlag(value)
               IN  IF r.err # Nil THEN [g |-> gen, err |-> r.err]
                   ELSE [g |-> [gen EXCEPT !.generateFlag = r.flag], err |-> Nil]
          [] key = "strict_field_numbers" ->
               ParseBool(gen, "strictFieldNumberValidation", key, value)
          [] key = "strict_enum_validation" ->
               ParseBool(gen, "strictEnumValidation", key, value)
          [] key = "allow_empty_packed_arrays" ->
               ParseBool(gen, "allowEmptyPackedArrays", key, value)
          [] key = "allow_non_monotonic_fields" ->
               ParseBool(gen, "allowNonMonotonicFields", key, value)
          [] key = "protobuf_lib_import" ->
               [g |-> [gen EXCEPT !.protobufLibImportPath =
                           IF HasSolSuffix(value) THEN value ELSE AppendSol(value)],
                err |-> Nil]
          [] OTHER -> [g |-> gen, err |-> <<"unrecognized option ", key>>]

\* ParseParameters: the entries are applied left to right; the first error
\* returns, and what was applied before it stays applied.
RECURSIVE ParseParameters(_, _)
ParseParameters(gen, entries) ==
    IF entries = <<>> THEN [g |-> gen, err |-> Nil]
    ELSE LET r == ParseParameter(gen, Head(entries))
         IN  IF r.err # Nil THEN r ELSE ParseParameters(r.g, Tail(entries))

----------------------------------------------------------------------------
(* Validation of a file: validation.go and the head of generateFile *)

checkSyntaxVersion(syntax) ==
    IF syntax # "proto3" THEN <<"only proto3 is supported, got ", syntax>> ELSE Nil

\* sort.Slice(fieldNumbers, <): the numbers in ascending order.
RECURSIVE SortNumbers(_)
SortNumbers(ns) ==
    IF ns = <<>> THEN <<>>
    ELSE LET m == CHOOSE i \in 1..Len(ns) : \A j \in 1..Len(ns) : ns[i] <= ns[j]
         IN  <<ns[m]>> \o SortNumbers(SubSeq(ns, 1, m - 1) \o SubSeq(ns, m + 1, Len(ns)))

\* The loop "for i := 1; i < len(fieldNumbers); i++" from index i (1-based: i + 1).
RECURSIVE checkIncrements(_, _)
checkIncrements(fieldNumbers, i) ==
    IF i > Len(fieldNumbers) THEN Nil
    ELSE IF fieldNumbers[i] # fieldNumbers[i - 1] + 1
         THEN <<"field numbers must increment by 1, got ", ToString(fieldNumbers[i]),
                " after ", ToString(fieldNumbers[i - 1])>>
         ELSE checkIncrements(fieldNumbers, i + 1)

checkFieldNumbers(fs, strictFieldNumbers) ==
    IF ~strictFieldNumbers THEN Nil
    ELSE IF Len(fs) = 0 THEN Nil
    ELSE LET fieldNumbers == SortNumbers([i \in 1..Len(fs) |-> fs[i].number])
         IN  IF fieldNumbers[1] # 1
             THEN <<"field numbers must start at 1, got ", ToString(fieldNumbers[1])>>
             ELSE checkIncrements(fieldNumbers, 2)

\* The types of checkRepeatedNumericFields' switch.
RepeatedNumericTypes ==
    {"int32", "int64", "uint32", "uint64", "sint32", "sint64", "fixed32", "fixed64",
     "sfixed32", "sfixed64", "float", "double", "bool"}

RECURSIVE checkRepeatedNumericFields(_)
checkRepeatedNumericFields(fs) ==
    IF fs = <<>> THEN Nil
    ELSE LET field == Head(fs)
         IN  IF isFieldRepeated(field) /\ field.type \in RepeatedNumericTypes
                /\ ~isFieldPacked(field)
             THEN <<"repeated numeric field '", field.name, "' must be packed">>
             ELSE checkRepeatedNumericFields(Tail(fs))

\* generateFile, first loop: "for _, descriptor := range protoFile.GetMessageType()".
RECURSIVE checkFieldNumbersOfMessages(_, _)
checkFieldNumbersOfMessages(descriptors, strict) ==
    IF descriptors = <<>> THEN Nil
    ELSE LET e == checkFieldNumbers(Head(descriptors).field, strict)
         IN  IF e # Nil
             THEN <<"invalid field numbers in message '", Head(descriptors).name, "': ">> \o e
             ELSE checkFieldNumbersOfMessages(Tail(descriptors), strict)

\* generateFile, second loop over protoFile.GetMessageType().
RECURSIVE checkRepeatedNumericFieldsOfMessages(_)
checkRepeatedNumericFieldsOfMessages(descriptors) ==
    IF descriptors = <<>> THEN Nil
    ELSE LET e == checkRepeatedNumericFields(Head(descriptors).field)
         IN  IF e # Nil
             THEN <<"invalid field in message '", Head(descriptors).name, "': ">> \o e
             ELSE checkRepeatedNumericFieldsOfMessages(Tail(descriptors))

\* generateFile up to "b := NewWriteableBuffer()": the error it returns, or
\* Nil when it goes on to print the file.
generateFile(gen, file) ==
    IF file.syntax = ""
    THEN <<"file ", file.name, " has no syntax declaration">>
    ELSE IF checkSyntaxVersion(file.syntax) # Nil THEN checkSyntaxVersion(file.syntax)
    ELSE IF gen.strictFieldNumberValidation
            /\ checkFieldNumbersOfMessages(file.message_type,
                                           gen.strictFieldNumberValidation) # Nil
         THEN checkFieldNumbersOfMessages(file.message_type,
                                          gen.strictFieldNumberValidation)
    ELSE checkRepeatedNumericFieldsOfMessages(file.message_type)

----------------------------------------------------------------------------
(* generateEnum *)

\* The loop of generateEnum from the i-th value on.  err # Nil: the loop
\* returned the error; otherwise names is enumNamesString, piece by piece.
RECURSIVE generateEnumLoop(_, _, _, _, _, _)
generateEnumLoop(gen, enumName, enumValues, i, oldValue, names) ==
    IF i > Len(enumValues) THEN [err |-> Nil, names |-> names, oldValue |-> oldValue]
    ELSE LET name  == enumValues[i].name
             value == enumValues[i].number
             sep   == IF oldValue # -1 THEN <<", ">> ELSE <<>>
             acc   == names \o sep \o <<name>>
         IN  IF gen.strictEnumValidation /\ value # oldValue + 1
             THEN [err |-> <<"enums must start at 0 and increment by 1: ",
                             enumName, ".", name>>,
                   names |-> acc, oldValue |-> oldValue]
             ELSE generateEnumLoop(gen, enumName, enumValues, i + 1, value, acc)

\* generateEnum after its loop: what it printed and wrote to g.enumMaxes.
generateEnum_looped(enumName, r) ==
    IF r.err # Nil
    THEN [err |-> r.err, enumName |-> enumName, printed |-> <<>>, enumMax |-> -1]
    ELSE [err |-> Nil, enumName |-> enumName, printed |-> r.names, enumMax |-> r.oldValue]

\* generateEnum from "enumName := sanitizeKeyword(descriptor.GetName())" on.
generateEnum_named(gen, descriptor, sanitized) ==
    IF sanitized.panic
    THEN [err |-> Panic, enumName |-> <<>>, printed |-> <<>>, enumMax |-> -1]
    ELSE IF Len(descriptor.value) = 0
    THEN [err |-> <<"enums must have at least one value: ", sanitized.value>>,
          enumName |-> sanitized.value, printed |-> <<>>, enumMax |-> -1]
    ELSE generateEnum_looped(sanitized.value,
                             generateEnumLoop(gen, sanitized.value, descriptor.value,
                                              1, -1, <<>>))

\* generateEnum(descriptor, b): err, the name declared, the value names
\* printed (nothing on an error) and the entry written to g.enumMaxes.
generateEnum(gen, descriptor) ==
    generateEnum_named(gen, descriptor, sanitizeKeyword(descriptor.name))

----------------------------------------------------------------------------
(* Messages: declarations, layout slots and the type names the encoder      *)
(* refers to.  Names and type names are sequences of characters.            *)

LowerChars ==
    <<"a", "b", "c", "d", "e", "f", "g", "h", "i", "j", "k", "l", "m",
      "n", "o", "p", "q", "r", "s", "t", "u", "v", "w", "x", "y", "z">>

UpperChars ==
    <<"A", "B", "C", "D", "E", "F", "G", "H", "I", "J", "K", "L", "M",
      "N", "O", "P", "Q", "R", "S", "T", "U", "V", "W", "X", "Y", "Z">>

\* strings.ToUpper of a one-character string.
ToUpper(c) ==
    IF \E k \in 1..Len(LowerChars) : LowerChars[k] = c
    THEN UpperChars[CHOOSE k \in 1..Len(LowerChars) : LowerChars[k] = c]
    ELSE c

\* strings.Title of an identifier: letters, digits and "_" do not separate
\* words, so only the first character is raised.
Title(s) == IF s = <<>> THEN s ELSE <<ToUpper(s[1])>> \o Tail(s)

\* strings.Split(s, sep) for a one-character separator.
RECURSIVE Split(_, _)
Split(s, sep) ==
    IF \A i \in 1..Len(s) : s[i] # sep THEN <<s>>
    ELSE LET i == CHOOSE k \in 1..Len(s) :
                      s[k] = sep /\ \A j \in 1..(k - 1) : s[j] # sep
         IN  <<SubSeq(s, 1, i - 1)>> \o Split(SubSeq(s, i + 1, Len(s)), sep)

\* strings.Join(parts, sep).
RECURSIVE Join(_, _)
Join(parts, sep) ==
    IF parts = <<>> THEN <<>>
    ELSE IF Len(parts) = 1 THEN parts[1]
    ELSE parts[1] \o sep \o Join(Tail(parts), sep)

PackageToLibraryName(packageName) ==
    IF Len(packageName) = 0 THEN <<"D", "e", "f", "a", "u", "l", "t", "P", "a", "c", "k", "a", "g", "e">>
    ELSE LET parts == Split(packageName, ".")
         IN  Join([i \in 1..Len(parts) |->
                      IF Len(parts[i]) > 0
                      THEN <<ToUpper(parts[i][1])>> \o Tail(parts[i])
                      ELSE parts[i]],
                  <<"_">>)

\* typeName without its leading period.
TrimLeadingDot(typeName) ==
    IF Len(typeName) > 0 /\ typeName[1] = "." THEN Tail(typeName) ELSE typeName

toSolMessageOrEnumName(field) ==
    IF Len(field.type_name) = 0 THEN <<"P", "l", "a", "c", "e", "h", "o", "l", "d", "e", "r", "T", "y", "p", "e">>
    ELSE LET typeName == TrimLeadingDot(field.type_name)
             parts    == Split(typeName, ".")
         IN  IF Len(parts) >= 2
             THEN PackageToLibraryName(Join(SubSeq(parts, 1, Len(parts) - 1), <<".">>))
                  \o <<".">> \o parts[Len(parts)]
             ELSE typeName

getSolTypeName(gen, field) ==
    LET originalTypeName == toSolMessageOrEnumName(field)
    IN  IF originalTypeName \in DOMAIN gen.mapFieldMappings
        THEN gen.mapFieldMappings[originalTypeName]
        ELSE originalTypeName

\* typeToSol: the Solidity type of a scalar field type.
typeToSol(fType) ==
    CASE fType \in {"double", "int64", "sfixed64", "sint64"} ->
             [name |-> <<"i", "n", "t", "6", "4">>, err |-> Nil]
      [] fType \in {"float", "int32", "sfixed32", "sint32"} ->
             [name |-> <<"i", "n", "t", "3", "2">>, err |-> Nil]
      [] fType \in {"uint64", "fixed64"} -> [name |-> <<"u", "i", "n", "t", "6", "4">>, err |-> Nil]
      [] fType \in {"uint32", "fixed32"} -> [name |-> <<"u", "i", "n", "t", "3", "2">>, err |-> Nil]
      [] fType = "bool" -> [name |-> <<"b", "o", "o", "l">>, err |-> Nil]
      [] fType = "string" -> [name |-> <<"s", "t", "r", "i", "n", "g">>, err |-> Nil]
      [] fType = "bytes" -> [name |-> <<"b", "y", "t", "e", "s">>, err |-> Nil]
      [] fType = "group" -> [name |-> <<>>, err |-> <<"unsupported field type TYPE_GROUP">>]
      [] fType = "message" ->
             [name |-> <<>>, err |-> <<"unsupported field type TYPE_MESSAGE">>]
      [] fType = "enum" -> [name |-> <<>>, err |-> <<"unsupported field type TYPE_ENUM">>]
      [] OTHER -> [name |-> <<>>, err |-> <<"unsupported field type: ", fType>>]

\* A field and a message of a descriptor tree.
FieldDescriptorProto(name, number, type, label, packed, type_name) ==
    [name |-> name, number |-> number, type |-> type, label |-> label,
     packed |-> packed, type_name |-> type_name]

DescriptorProto(name, field, enum_type, nested_type, map_entry) ==
    [name |-> name, field |-> field, enum_type |-> enum_type,
     nested_type |-> nested_type, map_entry |-> map_entry]

\* The last segment of a field's type name.
SimpleTypeName(field) ==
    LET parts == Split(TrimLeadingDot(field.type_name), ".")
    IN  parts[Len(parts)]

\* The nested types of the parent that are the field's map entry.
MapEntriesOf(field, parentDescriptor) ==
    {i \in 1..Len(parentDescriptor.nested_type) :
        /\ parentDescriptor.nested_type[i].name = SimpleTypeName(field)
        /\ parentDescriptor.nested_type[i].map_entry}

isMapField(field, parentDescriptor) ==
    /\ isFieldRepeated(field)
    /\ field.type = "message"
    /\ MapEntriesOf(field, parentDescriptor) # {}

\* The type of the last field of the entry that is called name; "none" is
\* the zero value of the type enumeration.
RECURSIVE EntryFieldType(_, _, _)
EntryFieldType(fs, name, found) ==
    IF fs = <<>> THEN found
    ELSE EntryFieldType(Tail(fs), name,
                        IF Head(fs).name = name THEN Head(fs).type ELSE found)

getMapKeyValueTypes(field, parentDescriptor) ==
    IF MapEntriesOf(field, parentDescriptor) = {}
    THEN [keyType |-> "none", valueType |-> "none",
          err |-> <<"map entry message not found: ", TrimLeadingDot(field.type_name)>>]
    ELSE LET i == CHOOSE k \in MapEntriesOf(field, parentDescriptor) :
                      \A j \in MapEntriesOf(field, parentDescriptor) : k <= j
             nestedType == parentDescriptor.nested_type[i]
         IN  IF Len(nestedType.field) # 2
             THEN [keyType |-> "none", valueType |-> "none",
                   err |-> <<"invalid map entry message: ",
                             TrimLeadingDot(field.type_name)>>]
             ELSE [keyType   |-> EntryFieldType(nestedType.field, <<"k", "e", "y">>, "none"),
                   valueType |-> EntryFieldType(nestedType.field, <<"v", "a", "l", "u", "e">>, "none"),
                   err |-> Nil]

createMapWrapperMessage(fieldName, keyType, valueType) ==
    DescriptorProto(Title(fieldName) \o <<"E", "n", "t", "r", "y">>,
                    << FieldDescriptorProto(<<"k", "e", "y">>, 1, keyType, "optional", FALSE, <<>>),
                       FieldDescriptorProto(<<"v", "a", "l", "u", "e">>, 2, valueType, "optional", FALSE, <<>>) >>,
                    <<>>, <<>>, FALSE)

createStringWrapperMessage(fieldName) ==
    DescriptorProto(Title(fieldName) \o <<"L", "i", "s", "t">>,
                    << FieldDescriptorProto(<<"v", "a", "l", "u", "e">>, 1, "string", "optional", FALSE, <<>>) >>,
                    <<>>, <<>>, FALSE)

createBytesWrapperMessage(fieldName) ==
    DescriptorProto(Title(fieldName) \o <<"L", "i", "s", "t">>,
                    << FieldDescriptorProto(<<"v", "a", "l", "u", "e">>, 1, "bytes", "optional", FALSE, <<>>) >>,
                    <<>>, <<>>, FALSE)

\* g.helperMessages[packageName][wrapperName] = wrapper, unless the entry exists.
PutHelperMessage(helperMessages, packageName, wrapperName, wrapper) ==
    IF packageName \notin DOMAIN helperMessages
    THEN (packageName :> (wrapperName :> wrapper)) @@ helperMessages
    ELSE IF wrapperName \in DOMAIN helperMessages[packageName]
    THEN helperMessages
    ELSE [helperMessages EXCEPT ![packageName] = (wrapperName :> wrapper) @@ @]

\* One thing written to the buffer: a declaration (enum, struct, library),
\* a layout slot of a struct, a routine of a codec library, or a type name a
\* routine refers to (kind "codec": <type>Codec.encode, kind "cast": <type>(0)).
Line(kind, name, type, array) ==
    [kind |-> kind, name |-> name, type |-> type, array |-> array]

NoType == <<>>

\* What an operation on a message leaves: its error, the lines it wrote and
\* the generator.
Written(e, printed, gen) == [err |-> e, printed |-> printed, g |-> gen]

\* generateFlattenedEnum after its call of generateEnum.
generateFlattenedEnum_generated(gen, r) ==
    IF r.err # Nil THEN Written(r.err, <<>>, gen)
    ELSE Written(Nil, <<Line("enum", r.enumName, NoType, "")>>,
                 [gen EXCEPT !.enumMaxes = (r.enumName :> r.enumMax) @@ gen.enumMaxes])

generateFlattenedEnum(gen, descriptor, flattenedName) ==
    generateFlattenedEnum_generated(
        gen, generateEnum(gen, [name |-> flattenedName, value |-> descriptor.value]))

RECURSIVE FlattenEnums(_, _, _, _)
\* One round of the loop after its call of generateFlattenedEnum.
FlattenEnums_generated(structName, enums, printed, r) ==
    IF r.err # Nil THEN Written(r.err, printed, r.g)
    ELSE FlattenEnums(r.g, structName, Tail(enums), printed \o r.printed)

\* One round of the loop from "g.enumMappings[originalEnumName] = ..." on.
FlattenEnums_mapped(gen, structName, enums, printed, flattenedEnumName) ==
    FlattenEnums_generated(
        structName, enums, printed,
        generateFlattenedEnum(
            [gen EXCEPT !.enumMappings =
                ((structName \o <<".">> \o Head(enums).name) :> flattenedEnumName) @@ @],
            Head(enums), flattenedEnumName))

\* "for _, enumDescriptor := range descriptor.GetEnumType()" of a message.
FlattenEnums(gen, structName, enums, printed) ==
    IF enums = <<>> THEN Written(Nil, printed, gen)
    ELSE FlattenEnums_mapped(gen, structName, enums, printed,
                             structName \o <<"_">> \o Head(enums).name)

DecoderPrinted(gen) == gen.generateFlag = "all" \/ gen.generateFlag = "decoder"

EncoderPrinted(gen) == gen.generateFlag = "all" \/ gen.generateFlag = "encoder"

\* The type names the encoder of one field refers to.
EncoderFieldLines(gen, structName, field, fieldName) ==
    LET prefix == <<Line("encode", fieldName, NoType, "")>>
        sol    == typeToSol(field.type)
        solErr == sol.err \o <<": ">> \o <<structName, ".", fieldName>>
    IN  IF isFieldRepeated(field)
        THEN IF isFieldPacked(field)
             THEN IF field.type = "enum" THEN [err |-> Nil, printed |-> prefix]
                  ELSE IF sol.err # Nil THEN [err |-> solErr, printed |-> <<>>]
                  ELSE [err |-> Nil, printed |-> prefix]
             ELSE IF field.type \in {"string", "bytes"}
                  THEN [err |-> Nil,
                        printed |-> prefix \o
                            <<Line("codec", fieldName, Title(fieldName) \o <<"L", "i", "s", "t">>, "")>>]
                  ELSE [err |-> Nil,
                        printed |-> prefix \o
                            <<Line("codec", fieldName, getSolTypeName(gen, field), "")>>]
        ELSE CASE field.type = "enum" ->
                      [err |-> Nil,
                       printed |-> prefix \o
                           <<Line("cast", fieldName, getSolTypeName(gen, field), "")>>]
               [] field.type = "message" ->
                      [err |-> Nil,
                       printed |-> prefix \o
                           <<Line("codec", fieldName, getSolTypeName(gen, field), "")>>]
               [] OTHER ->
                      IF sol.err # Nil THEN [err |-> solErr, printed |-> <<>>]
                      ELSE [err |-> Nil, printed |-> prefix]

RECURSIVE EncoderFields(_, _, _, _, _)
\* One round of the loop of generateMessageEncoder after the field's lines.
EncoderFields_encoded(gen, structName, fs, fieldNameMap, printed, r) ==
    IF r.err # Nil THEN [err |-> r.err, printed |-> printed]
    ELSE EncoderFields(gen, structName, Tail(fs), fieldNameMap, printed \o r.printed)

\* "for _, field := range fields" of generateMessageEncoder.
EncoderFields(gen, structName, fs, fieldNameMap, printed) ==
    IF fs = <<>> THEN [err |-> Nil, printed |-> printed]
    ELSE EncoderFields_encoded(gen, structName, fs, fieldNameMap, printed,
                               EncoderFieldLines(gen, structName, Head(fs),
                                                 fieldNameMap[Head(fs).number]))

generateMessageEncoder(gen, structName, fs, fieldNameMap) ==
    EncoderFields(gen, structName, fs, fieldNameMap,
                  <<Line("encode", structName, NoType, "")>>)

\* The decoder routine refers to no field type.
generateMessageDecoder(gen, structName, fs, fieldNameMap) ==
    [err |-> Nil, printed |-> <<Line("decode", structName, NoType, "")>>]

\* The routines of a codec library once both generators returned.
CodecRoutines_both(fs, d, e) ==
    IF Len(fs) = 0 THEN [err |-> Nil, printed |-> <<>>]
    ELSE IF d.err # Nil THEN d
    ELSE IF e.err # Nil THEN e
    ELSE [err |-> Nil, printed |-> d.printed \o e.printed]

\* The decoder and the encoder the generate flag asks for.
CodecRoutines(gen, structName, fs, fieldNameMap) ==
    CodecRoutines_both(fs,
                       IF DecoderPrinted(gen)
                       THEN generateMessageDecoder(gen, structName, fs, fieldNameMap)
                       ELSE [err |-> Nil, printed |-> <<>>],
                       IF EncoderPrinted(gen)
                       THEN generateMessageEncoder(gen, structName, fs, fieldNameMap)
                       ELSE [err |-> Nil, printed |-> <<>>])

\* The layout slots of a struct, from the fields fs on.  wrapStrings: the
\* caller is generateMessage, which gives repeated strings and bytes a list
\* wrapper; generateMessageStruct does not.
RECURSIVE StructFields(_, _, _, _, _, _, _, _)
StructFields(gen, descriptor, packageName, structName, fieldNameMap, fs, printed, wrapStrings) ==
    IF fs = <<>> THEN Written(Nil, printed, gen)
    ELSE LET field     == Head(fs)
             fieldName == fieldNameMap[field.number]
             arrayStr  == IF isFieldRepeated(field) THEN "[]" ELSE ""
             kv        == getMapKeyValueTypes(field, descriptor)
             entryName == Title(fieldName) \o <<"E", "n", "t", "r", "y">>
             listName  == Title(fieldName) \o <<"L", "i", "s", "t">>
             sol       == typeToSol(field.type)
             Continue(g1, type) ==
                 StructFields(g1, descriptor, packageName, structName, fieldNameMap,
                              Tail(fs), Append(printed, Line("slot", fieldName, type, arrayStr)),
                              wrapStrings)
         IN  IF field.type \in {"enum", "message"}
             THEN IF isMapField(field, descriptor)
                  THEN IF kv.err # Nil THEN Written(kv.err, printed, gen)
                       ELSE Continue(
                              [gen EXCEPT
                                 !.helperMessages =
                                     PutHelperMessage(@, packageName, entryName,
                                         createMapWrapperMessage(fieldName, kv.keyType,
                                                                 kv.valueType)),
                                 !.messageMappings =
                                     (TrimLeadingDot(field.type_name) :> entryName) @@ @],
                              entryName)
                  ELSE Continue(gen, getSolTypeName(gen, field))
             ELSE IF wrapStrings /\ field.type \in {"string", "bytes"} /\ isFieldRepeated(field)
             THEN Continue(
                    [gen EXCEPT
                       !.helperMessages =
                           PutHelperMessage(@, packageName, listName,
                               IF field.type = "string"
                               THEN createStringWrapperMessage(fieldName)
                               ELSE createBytesWrapperMessage(fieldName))],
                    listName)
             ELSE IF sol.err # Nil
             THEN Written(sol.err \o <<": ">> \o <<structName, ".", fieldName>>, printed, gen)
             ELSE Continue(gen, sol.name)

\* The nested types of a message that are not map entries.
RECURSIVE ActualNestedMessages(_)
ActualNestedMessages(nested) ==
    IF nested = <<>> THEN <<>>
    ELSE IF Head(nested).map_entry THEN ActualNestedMessages(Tail(nested))
    ELSE <<Head(nested)>> \o ActualNestedMessages(Tail(nested))

RECURSIVE generateMessage(_, _, _)
RECURSIVE FlattenMessages(_, _, _, _, _)

generateFlattenedMessage(gen, descriptor, packageName, flattenedName) ==
    generateMessage(gen, [descriptor EXCEPT !.name = flattenedName], packageName)

\* One round of the loop after its call of generateFlattenedMessage.
FlattenMessages_generated(structName, packageName, nested, printed, r) ==
    IF r.err # Nil THEN Written(r.err, printed, r.g)
    ELSE FlattenMessages(r.g, structName, packageName, Tail(nested), printed \o r.printed)

\* One round of the loop from "g.messageMappings[originalMessageName] = ..." on.
FlattenMessages_mapped(gen, structName, packageName, nested, printed, flattenedMessageName) ==
    FlattenMessages_generated(
        structName, packageName, nested, printed,
        generateFlattenedMessage(
            [gen EXCEPT !.messageMappings =
                ((structName \o <<".">> \o Head(nested).name) :> flattenedMessageName) @@ @],
            Head(nested), packageName, flattenedMessageName))

\* "for _, nestedDescriptor := range actualNestedMessages" of a message.
FlattenMessages(gen, structName, packageName, nested, printed) ==
    IF nested = <<>> THEN Written(Nil, printed, gen)
    ELSE FlattenMessages_mapped(gen, structName, packageName, nested, printed,
                                structName \o <<"_">> \o Head(nested).name)

\* generateMessage after the routines of the codec library.
generateMessage_codec(structName, s, c) ==
    IF c.err # Nil THEN Written(c.err, s.printed, s.g)
    ELSE Written(Nil,
                 s.printed
                   \o <<Line("end", structName, NoType, ""),
                        Line("library", structName \o <<"C", "o", "d", "e", "c">>, NoType, "")>>
                   \o c.printed
                   \o <<Line("end", structName \o <<"C", "o", "d", "e", "c">>, NoType, "")>>,
                 s.g)

\* generateMessage after the fields of the struct.
generateMessage_struct(descriptor, structName, names, s) ==
    IF s.err # Nil THEN s
    ELSE generateMessage_codec(structName, s,
                               CodecRoutines(s.g, structName, descriptor.field, names.value))

\* generateMessage after the nested messages.
generateMessage_messages(descriptor, packageName, structName, names, m) ==
    IF m.err # Nil THEN m
    ELSE IF names.panic THEN Written(Panic, m.printed, m.g)
    ELSE generateMessage_struct(
             descriptor, structName, names,
             StructFields(m.g, descriptor, packageName, structName, names.value,
                          descriptor.field,
                          Append(m.printed, Line("struct", structName, NoType, "")),
                          TRUE))

\* generateMessage after the nested enums.
generateMessage_enums(descriptor, packageName, structName, names, e) ==
    IF e.err # Nil THEN e
    ELSE generateMessage_messages(
             descriptor, packageName, structName, names,
             FlattenMessages(e.g, structName, packageName,
                             ActualNestedMessages(descriptor.nested_type), e.printed))

\* generateMessage from "structName := sanitizeKeyword(descriptor.GetName())" on.
generateMessage_named(gen, descriptor, packageName, sanitized, names) ==
    IF sanitized.panic THEN Written(Panic, <<>>, gen)
    ELSE generateMessage_enums(
             descriptor, packageName, sanitized.value, names,
             FlattenEnums(gen, sanitized.value, descriptor.enum_type, <<>>))

\* generateMessage: the struct of a message followed by its codec library.
generateMessage(gen, descriptor, packageName) ==
    generateMessage_named(gen, descriptor, packageName,
                          sanitizeKeyword(descriptor.name),
                          ProcessFieldNames(descriptor.field))

\* generateMessageStruct after the fields of the struct.
generateMessageStruct_struct(structName, s) ==
    IF s.err # Nil THEN s
    ELSE Written(Nil, Append(s.printed, Line("end", structName, NoType, "")), s.g)

\* generateMessageStruct after the nested messages.
generateMessageStruct_messages(descriptor, packageName, structName, names, m) ==
    IF m.err # Nil THEN m
    ELSE generateMessageStruct_struct(
             structName,
             StructFields(m.g, descriptor, packageName, structName, names.value,
                          descriptor.field,
                          Append(m.printed, Line("struct", structName, NoType, "")),
                          FALSE))

\* generateMessageStruct after the nested enums.
generateMessageStruct_enums(descriptor, packageName, structName, names, e) ==
    IF e.err # Nil THEN e
    ELSE generateMessageStruct_messages(
             descriptor, packageName, structName, names,
             FlattenMessages(e.g, structName, packageName,
                             ActualNestedMessages(descriptor.nested_type), e.printed))

\* generateMessageStruct from "structName := sanitizeKeyword(...)" on.
generateMessageStruct_named(gen, descriptor, packageName, sanitized, names) ==
    IF sanitized.panic \/ names.panic THEN Written(Panic, <<>>, gen)
    ELSE generateMessageStruct_enums(
             descriptor, packageName, sanitized.value, names,
             FlattenEnums(gen, sanitized.value, descriptor.enum_type, <<>>))

\* generateMessageStruct: the flattened nested types of a message, then its
\* struct.
generateMessageStruct(gen, descriptor, packageName) ==
    generateMessageStruct_named(gen, descriptor, packageName,
                                sanitizeKeyword(descriptor.name),
                                ProcessFieldNames(descriptor.field))

\* generateMessageCodec after the routines of the codec library.
generateMessageCodec_codec(gen, descriptor, structName, qualifiedStructName, c) ==
    IF c.err # Nil THEN Written(c.err, <<>>, gen)
    ELSE Written(Nil,
                 <<Line("library", structName \o <<"C", "o", "d", "e", "c">>, NoType, "")>>
                   \o (IF Len(descriptor.field) > 0
                       THEN <<Line("check_key", qualifiedStructName, NoType, ""),
                              Line("decode_field", qualifiedStructName, NoType, "")>>
                       ELSE <<>>)
                   \o c.printed
                   \o <<Line("end", structName \o <<"C", "o", "d", "e", "c">>, NoType, "")>>,
                 gen)

\* generateMessageCodec from "libraryName := ..." on.
generateMessageCodec_named(gen, descriptor, sanitized, names, libraryName) ==
    IF sanitized.panic \/ names.panic THEN Written(Panic, <<>>, gen)
    ELSE generateMessageCodec_codec(
             gen, descriptor, sanitized.value, libraryName \o <<".">> \o sanitized.value,
             CodecRoutines(gen, libraryName \o <<".">> \o sanitized.value,
                           descriptor.field, names.value))

\* generateMessageCodec: the codec library of a message.
generateMessageCodec(gen, descriptor, packageName) ==
    generateMessageCodec_named(
        gen, descriptor, sanitizeKeyword(descriptor.name),
        ProcessFieldNames(descriptor.field), PackageToLibraryName(packageName))

----------------------------------------------------------------------------
(* Output file names and import paths.  Paths are sequences of characters.  *)

\* strings.TrimSuffix(s, suffix).
TrimSuffix(s, suffix) ==
    IF Len(s) >= Len(suffix) /\ SubSeq(s, Len(s) - Len(suffix) + 1, Len(s)) = suffix
    THEN SubSeq(s, 1, Len(s) - Len(suffix))
    ELSE s

\* strings.ReplaceAll(s, old, new) for one-character strings old and new.
ReplaceAll(s, old, new) == [i \in 1..Len(s) |-> IF s[i] = old THEN new ELSE s[i]]

\* strings.LastIndex(s, c) for a one-character string c, counted from 0;
\* -1 when c does not occur.
LastIndex(s, c) ==
    IF \A i \in 1..Len(s) : s[i] # c THEN -1
    ELSE (CHOOSE i \in 1..Len(s) : s[i] = c /\ \A j \in (i + 1)..Len(s) : s[j] # c) - 1

\* filepath.Base(path) of a path that does not end in a separator.
Base(path) ==
    IF path = <<>> THEN <<".">>
    ELSE SubSeq(path, LastIndex(path, "/") + 2, Len(path))

GenerateOutputFileName(file) ==
    LET baseName == TrimSuffix(Base(file.name), <<".", "p", "r", "o", "t", "o">>)
    IN  IF Len(file.package) > 0
        THEN ReplaceAll(file.package, ".", "/") \o <<"/">> \o baseName \o <<".", "s", "o", "l">>
        ELSE baseName \o <<".", "s", "o", "l">>

getGeneratedFilePath(protoFilePath) == TrimSuffix(protoFilePath, <<".", "p", "r", "o", "t", "o">>)

\* The "../" and the remaining directories calculateRelativePath writes.
RECURSIVE GoUp(_)
GoUp(upCount) == IF upCount <= 0 THEN <<>> ELSE <<".", ".", "/">> \o GoUp(upCount - 1)

calculateRelativePath(currentFileName, dependency) ==
    LET trimmed        == TrimSuffix(currentFileName, <<".", "s", "o", "l">>)
        lastSlash      == LastIndex(trimmed, "/")
        currentDir     == IF lastSlash # -1 THEN SubSeq(trimmed, 1, lastSlash) ELSE trimmed
        currentDirs    == Split(currentDir, "/")
        dependencyDirs == Split(dependency, "/")
        limit          == IF Len(currentDirs) < Len(dependencyDirs)
                          THEN Len(currentDirs) ELSE Len(dependencyDirs)
        commonPrefixLen ==
            Cardinality({n \in 1..limit :
                            \A i \in 1..n : currentDirs[i] = dependencyDirs[i]})
        upCount        == Len(currentDirs) - commonPrefixLen
    IN  GoUp(upCount)
          \o Join(SubSeq(dependencyDirs, commonPrefixLen + 1, Len(dependencyDirs)), <<"/">>)

\* dependencyToImportPath of a dependency other than "ProtobufLib".
dependencyToImportPath(dependency, currentFileName) ==
    LET trimmed == ReplaceAll(TrimSuffix(dependency, <<".", "p", "r", "o", "t", "o">>), "\\", "/")
    IN  calculateRelativePath(currentFileName, getGeneratedFilePath(trimmed)) \o <<".", "s", "o", "l">>

IsGoogleProtobufDependency(dependency) == HasPrefix(dependency, <<"g", "o", "o", "g", "l", "e", "/", "p", "r", "o", "t", "o", "b", "u", "f", "/">>)

IsGoogleAPIDependency(dependency) == HasPrefix(dependency, <<"g", "o", "o", "g", "l", "e", "/", "a", "p", "i", "/">>)

IsGoogleDependency(dependency) ==
    IsGoogleProtobufDependency(dependency) \/ IsGoogleAPIDependency(dependency)

\* "for _, dependency := range protoFile.GetDependency()" of GenerateImports:
\* the import paths written, without duplicates.
RECURSIVE DependencyImports(_, _, _)
DependencyImports(dependencies, generatedFileName, imported) ==
    IF dependencies = <<>> THEN imported
    ELSE LET importPath == dependencyToImportPath(Head(dependencies), generatedFileName)
         IN  DependencyImports(Tail(dependencies), generatedFileName,
                 IF IsGoogleDependency(Head(dependencies))
                    \/ \E i \in 1..Len(imported) : imported[i] = importPath
                 THEN imported
                 ELSE Append(imported, importPath))

\* GenerateImports: the import paths written, in order.  The first is the
\* configured path of ProtobufLib, kept as one piece.
GenerateImports(protobufLibImportPath, file, generatedFileName) ==
    LET libImport == <<protobufLibImportPath>>
        usesGoogleTypes ==
            \E i \in 1..Len(file.dependency) :
                IsGoogleProtobufDependency(file.dependency[i])
        googleImport ==
            calculateRelativePath(generatedFileName, <<"g", "o", "o", "g", "l", "e", "/", "p", "r", "o", "t", "o", "b", "u", "f", "/", "g", "o", "o", "g", "l", "e", "_", "p", "r", "o", "t", "o", "b", "u", "f">>)
              \o <<".", "s", "o", "l">>
    IN  DependencyImports(file.dependency, generatedFileName,
                          IF usesGoogleTypes THEN <<libImport, googleImport>>
                          ELSE <<libImport>>)

----------------------------------------------------------------------------
(* generateFile as a whole, and the loop of Generate.                       *)

\* One file of the response.
Unit(name, content) == [name |-> name, content |-> content]

NoUnit == Unit(<<>>, <<>>)

\* What generateFile leaves: its error, whether it returned a file, the file
\* and the generator.
FileResult(e, some, unit, gen) == [err |-> e, some |-> some, unit |-> unit, g |-> gen]

\* libraryGen.GenerateEnums: the top-level enums of the file, in order.
RECURSIVE GenerateEnums(_, _, _)
\* One round of the loop after its call of generateEnum.
GenerateEnums_generated(gen, enums, printed, r) ==
    IF r.err # Nil THEN Written(r.err, printed, gen)
    ELSE GenerateEnums([gen EXCEPT !.enumMaxes = (r.enumName :> r.enumMax) @@ gen.enumMaxes],
                       Tail(enums),
                       Append(printed, Line("enum", r.enumName, NoType, "")))

GenerateEnums(gen, enums, printed) ==
    IF enums = <<>> THEN Written(Nil, printed, gen)
    ELSE GenerateEnums_generated(gen, enums, printed, generateEnum(gen, Head(enums)))

\* libraryGen.GenerateMessageStructs: the top-level messages of the file, in
\* order.
RECURSIVE GenerateMessageStructs(_, _, _, _)
\* One round of the loop after its call of generateMessageStruct.
GenerateMessageStructs_generated(messages, packageName, printed, r) ==
    IF r.err # Nil THEN Written(r.err, printed, r.g)
    ELSE GenerateMessageStructs(r.g, Tail(messages), packageName, printed \o r.printed)

GenerateMessageStructs(gen, messages, packageName, printed) ==
    IF messages = <<>> THEN Written(Nil, printed, gen)
    ELSE GenerateMessageStructs_generated(
             messages, packageName, printed,
             generateMessageStruct(gen, Head(messages), packageName))

\* libraryGen.GenerateCodecLibraries: the codec of every top-level message.
RECURSIVE GenerateCodecLibraries(_, _, _, _)
\* One round of the loop after its call of generateMessageCodec.
GenerateCodecLibraries_generated(messages, packageName, printed, r) ==
    IF r.err # Nil THEN Written(r.err, printed, r.g)
    ELSE GenerateCodecLibraries(r.g, Tail(messages), packageName, printed \o r.printed)

GenerateCodecLibraries(gen, messages, packageName, printed) ==
    IF messages = <<>> THEN Written(Nil, printed, gen)
    ELSE GenerateCodecLibraries_generated(
             messages, packageName, printed,
             generateMessageCodec(gen, Head(messages), packageName))

\* GenerateGoogleProtobufTypes(protoFile, b, alreadyGenerated): what it prints.
\* Every path returns nil without printing.
GenerateGoogleProtobufTypes(file, alreadyGenerated) ==
    IF ~ \E k \in 1..Len(file.dependency) : IsGoogleProtobufDependency(file.dependency[k])
    THEN <<>>
    ELSE IF alreadyGenerated THEN <<>>
    ELSE <<>>

\* generateFile after GenerateCodecLibraries: the file it returns.
generateFile_codecs(generatedFileName, c) ==
    IF c.err # Nil THEN FileResult(c.err, FALSE, NoUnit, c.g)
    ELSE FileResult(Nil, TRUE, Unit(generatedFileName, c.printed), c.g)

\* generateFile after GenerateMessageStructs: the float and double helpers,
\* the end of the main library, and the codec libraries.
generateFile_structs(file, generatedFileName, s) ==
    IF s.err # Nil THEN FileResult(s.err, FALSE, NoUnit, s.g)
    ELSE generateFile_codecs(
             generatedFileName,
             GenerateCodecLibraries(
                 s.g, file.message_type, file.package,
                 s.printed
                   \o <<Line("helpers", <<"d", "e", "c", "o", "d", "e", "_", "f", "l", "o", "a", "t", "_", "s", "c", "a", "l", "e", "d">>, NoType, ""),
                        Line("helpers", <<"d", "e", "c", "o", "d", "e", "_", "d", "o", "u", "b", "l", "e", "_", "s", "c", "a", "l", "e", "d">>, NoType, ""),
                        Line("end", PackageToLibraryName(file.package), NoType, "")>>))

\* generateFile after GenerateEnums.
generateFile_enums(file, generatedFileName, e) ==
    IF e.err # Nil THEN FileResult(e.err, FALSE, NoUnit, e.g)
    ELSE generateFile_structs(
             file, generatedFileName,
             GenerateMessageStructs(e.g, file.message_type, file.package, e.printed))

\* generateFile after GenerateImports: the header, the imports, the Google
\* types and the opening of the main library.
generateFile_imports(gen, file, generatedFileName, imports) ==
    generateFile_enums(
        file, generatedFileName,
        GenerateEnums([gen EXCEPT !.googleProtobufGenerated = TRUE], file.enum_type,
                      <<Line("header", <<gen.licenseString>>, NoType, "")>>
                        \o [i \in 1..Len(imports) |-> Line("import", imports[i], NoType, "")]
                        \o GenerateGoogleProtobufTypes(file, gen.googleProtobufGenerated)
                        \o <<Line("library", PackageToLibraryName(file.package),
                                  NoType, "")>>))

\* generateFile from "generatedFileName := ..." on.
generateFile_named(gen, file, generatedFileName) ==
    generateFile_imports(gen, file, generatedFileName,
                         GenerateImports(gen.protobufLibImportPath, file, generatedFileName))

\* generateFile from "b := NewWriteableBuffer()" on.
generateFileBody(gen, file) ==
    generateFile_named(gen, file, GenerateOutputFileName(file))

\* generateFile after its validation returned e.
generateFile_checked(gen, file, e) ==
    IF e # Nil THEN FileResult(e, FALSE, NoUnit, gen)
    ELSE generateFileBody(gen, file)

\* generateFile(protoFile): a Google file is skipped, a file that fails the
\* checks returns their error, any other file is printed.
generateFileUnit(gen, file) ==
    IF IsGoogleDependency(file.name) THEN FileResult(Nil, FALSE, NoUnit, gen)
    ELSE generateFile_checked(gen, file, generateFile(gen, file))

\* Generate: "usesGoogleTypes".
UsesGoogleTypes(req) ==
    \E i \in 1..Len(req.proto_file) :
        /\ req.proto_file[i].name \in req.file_to_generate
        /\ \E k \in 1..Len(req.proto_file[i].dependency) :
              IsGoogleProtobufDependency(req.proto_file[i].dependency[k])

\* The file of the shared Google library.
SharedGoogleUnit(gen) ==
    Unit(<<"g", "o", "o", "g", "l", "e", "/", "p", "r", "o", "t", "o", "b", "u", "f", "/", "g", "o", "o", "g", "l", "e", "_", "p", "r", "o", "t", "o", "b", "u", "f", ".", "s", "o", "l">>,
         <<Line("import", <<gen.protobufLibImportPath>>, NoType, "")>>)

\* The state of a call of Generate before its first statement.
Called(gen) ==
    [g |-> gen, pc |-> "start", visited |-> {}, cur |-> 0, response |-> <<>>,
     result |-> "none", err |-> Nil]

\* "for i, protoFile := range protoFiles": the files that can be the next
\* one; a slice is walked in index order.
NextFiles_MapOrder(protoFiles, visited) == (1..Len(protoFiles)) \ visited

NextFiles(protoFiles, visited) ==
    LET rest == (1..Len(protoFiles)) \ visited
    IN  {i \in rest : \A j \in rest : i <= j}

\* delete(packageMessages, wrapperName)
DeleteWrapper(helperMessages, packageName, wrapperName) ==
    [helperMessages EXCEPT ![packageName] =
        [w \in (DOMAIN helperMessages[packageName]) \ {wrapperName} |->
            helperMessages[packageName][w]]]

\* delete(g.helperMessages, packageName)
DeletePackage_Keep(helperMessages, packageName) == helperMessages

DeletePackage(helperMessages, packageName) ==
    [p \in (DOMAIN helperMessages) \ {packageName} |-> helperMessages[p]]

\* "return nil, err"
ReturnError_Partial(state, e) ==
    [state EXCEPT !.pc = "done", !.result = "error", !.err = e]

ReturnError(state, e) ==
    [state EXCEPT !.pc = "done", !.response = <<>>, !.result = "error", !.err = e]

\* A panic below Generate unwinds it: nothing is returned.
Unwound(state) ==
    [state EXCEPT !.pc = "done", !.response = <<>>, !.result = "panic", !.err = Panic]

----------------------------------------------------------------------------
(* The float and double helpers generateFloatDoubleHelpers prints.  Their   *)
(* assembly block works on 256-bit words; a word is its 32 bytes, least     *)
(* significant first.                                                       *)

WordBytes == 32

\* The word whose bytes are f[1], ..., f[WordBytes].
WordOf(f) ==
    << f[1], f[2], f[3], f[4], f[5], f[6], f[7], f[8],
       f[9], f[10], f[11], f[12], f[13], f[14], f[15], f[16],
       f[17], f[18], f[19], f[20], f[21], f[22], f[23], f[24],
       f[25], f[26], f[27], f[28], f[29], f[30], f[31], f[32] >>

Pow2(n) == IF n = 0 THEN 1 ELSE IF n = 1 THEN 2 ELSE IF n = 2 THEN 4
           ELSE IF n = 3 THEN 8 ELSE IF n = 4 THEN 16 ELSE IF n = 5 THEN 32
           ELSE IF n = 6 THEN 64 ELSE IF n = 7 THEN 128 ELSE 256

\* The word of a natural number below 2^31.
Word(n) ==
    WordOf([i \in 1..WordBytes |->
               IF i = 1 THEN n % 256
               ELSE IF i = 2 THEN (n \div 256) % 256
               ELSE IF i = 3 THEN (n \div 65536) % 256
               ELSE IF i = 4 THEN n \div 16777216
               ELSE 0])

\* a + b + carry, modulo 2^256
RECURSIVE AddCarry(_, _, _, _)
AddCarry(a, b, carry, acc) ==
    IF Len(acc) = WordBytes THEN acc
    ELSE LET s == a[Len(acc) + 1] + b[Len(acc) + 1] + carry
         IN  AddCarry(a, b, s \div 256, Append(acc, s % 256))

add(a, b) == AddCarry(a, b, 0, <<>>)

not(a) == WordOf([i \in 1..WordBytes |-> 255 - a[i]])

sub(a, b) == AddCarry(a, not(b), 1, <<>>)

\* a times a number below 2^23, modulo 2^256
RECURSIVE MulSmall(_, _, _, _)
MulSmall(a, c, carry, acc) ==
    IF Len(acc) = WordBytes THEN acc
    ELSE LET p == a[Len(acc) + 1] * c + carry
         IN  MulSmall(a, c, p \div 256, Append(acc, p % 256))

\* mul(a, literal), the literal given as factors below 2^23
mul(a, factors) ==
    IF Len(factors) = 1 THEN MulSmall(a, factors[1], 0, <<>>)
    ELSE MulSmall(MulSmall(MulSmall(a, factors[1], 0, <<>>), factors[2], 0, <<>>),
                  factors[3], 0, <<>>)

\* a moved up by q bytes
ShlBytes(a, q) == WordOf([i \in 1..WordBytes |-> IF i > q THEN a[i - q] ELSE 0])

\* a moved down by q bytes
ShrBytes(a, q) ==
    WordOf([i \in 1..WordBytes |-> IF i + q <= WordBytes THEN a[i + q] ELSE 0])

\* The shift a word asks for: 256 stands for every shift of 256 or more.
ShiftAmount(w) == IF \E i \in 2..WordBytes : w[i] # 0 THEN 256 ELSE w[1]

ShlBits(n, a) ==
    IF n >= 256 THEN Word(0)
    ELSE MulSmall(ShlBytes(a, n \div 8), Pow2(n % 8), 0, <<>>)

ShrBits(n, a) ==
    IF n >= 256 THEN Word(0)
    ELSE LET b == ShrBytes(a, n \div 8)
             r == n % 8
         IN  WordOf([i \in 1..WordBytes |->
                        (b[i] \div Pow2(r))
                        + (IF i < WordBytes THEN (b[i + 1] % Pow2(r)) * Pow2(8 - r) ELSE 0)])

shl(shift, value) == ShlBits(ShiftAmount(shift), value)

shr(shift, value) == ShrBits(ShiftAmount(shift), value)

Bit(byte, i) == (byte \div Pow2(i)) % 2

ByteAnd(p, q) ==
    Bit(p, 0) * Bit(q, 0) + 2 * Bit(p, 1) * Bit(q, 1) + 4 * Bit(p, 2) * Bit(q, 2)
    + 8 * Bit(p, 3) * Bit(q, 3) + 16 * Bit(p, 4) * Bit(q, 4) + 32 * Bit(p, 5) * Bit(q, 5)
    + 64 * Bit(p, 6) * Bit(q, 6) + 128 * Bit(p, 7) * Bit(q, 7)

and(a, b) == WordOf([i \in 1..WordBytes |-> ByteAnd(a[i], b[i])])

or(a, b) == WordOf([i \in 1..WordBytes |-> a[i] + b[i] - ByteAnd(a[i], b[i])])

\* unsigned a > b
gt(a, b) ==
    \E i \in 1..WordBytes :
        /\ a[i] > b[i]
        /\ \A j \in (i + 1)..WordBytes : a[j] = b[j]

lt(a, b) == gt(b, a)

eq(a, b) == a = b

\* 2^n - 1
Ones(n) == sub(ShlBits(n, Word(1)), Word(1))

\* What a variable of a signed type of the given number of bytes holds once
\* the word assigned to it in assembly is cleaned up.
Cleaned(bytes, w) ==
    WordOf([i \in 1..WordBytes |->
               IF i <= bytes THEN w[i] ELSE IF w[bytes] >= 128 THEN 255 ELSE 0])

\* The literals of the two helpers: the position of the sign, the bits of
\* the mantissa, the mask of the exponent, the bias, the scale (as factors)
\* and the bytes of the result.
FloatFormat ==
    [signBit |-> 31, mantissaBits |-> 23, exponentMask |-> 255, bias |-> 127,
     scale |-> <<1000000>>, bytes |-> 4]

DoubleFormat ==
    [signBit |-> 63, mantissaBits |-> 52, exponentMask |-> 2047, bias |-> 1023,
     scale |-> <<1000000, 1000000, 1000>>, bytes |-> 8]

\* The locals of the assembly block.
Locals(raw_value, sign, exponent, mantissa, shift, scaled_mantissa, scaled_value) ==
    [raw_value |-> raw_value, sign |-> sign, exponent |-> exponent,
     mantissa |-> mantissa, shift |-> shift, scaled_mantissa |-> scaled_mantissa,
     scaled_value |-> scaled_value]

\* No assembly block is being run.
NoLocals == Locals(<<>>, <<>>, <<>>, <<>>, <<>>, <<>>, <<>>)

----------------------------------------------------------------------------
(* ProtobufLib: the runtime library the printed code calls *)

WireTypeOf(code) ==
    CASE code = 0 -> "Varint"
      [] code = 1 -> "Bits64"
      [] code = 2 -> "LengthDelimited"
      [] code = 3 -> "StartGroup"
      [] code = 4 -> "EndGroup"
      [] code = 5 -> "Bits32"
      [] OTHER -> "Invalid"

WireTypeCode(wire_type) ==
    CASE wire_type = "Varint" -> 0
      [] wire_type = "Bits64" -> 1
      [] wire_type = "LengthDelimited" -> 2
      [] wire_type = "StartGroup" -> 3
      [] wire_type = "EndGroup" -> 4
      [] wire_type = "Bits32" -> 5

RECURSIVE Pow(_, _)
Pow(b, e) == IF e = 0 THEN 1 ELSE b * Pow(b, e - 1)

\* ProtobufLib.decode_varint: base-128, least significant group first, at most
\* ten bytes, a multi-byte encoding must not end in a zero group.
RECURSIVE decode_varint_at(_, _, _, _)
decode_varint_at(p, b, i, val) ==
    IF i >= 10 \/ p + i >= Len(b)
    THEN [success |-> FALSE, pos |-> p, val |-> 0]
    ELSE LET byte == b[p + i + 1]
             v    == byte % 128
             nval == val + v * Pow(128, i)
         IN  IF byte < 128
             THEN IF i > 0 /\ v = 0
                  THEN [success |-> FALSE, pos |-> p, val |-> 0]
                  ELSE [success |-> TRUE, pos |-> p + i + 1, val |-> nval]
             ELSE decode_varint_at(p, b, i + 1, nval)

decode_varint(p, b) == decode_varint_at(p, b, 0, 0)

\* ProtobufLib.decode_key: the key is the varint (field_number << 3) | wire_type;
\* the group wire types and the unassigned ones are refused.
decode_key(p, b) ==
    LET r  == decode_varint(p, b)
        wt == WireTypeOf(r.val % 8)
    IN  IF ~r.success \/ wt \in {"StartGroup", "EndGroup", "Invalid"}
        THEN [success |-> FALSE, pos |-> p, field_number |-> 0, wire_type |-> "Varint"]
        ELSE [success |-> TRUE, pos |-> r.pos, field_number |-> r.val \div 8,
              wire_type |-> wt]

\* ProtobufLib.decode_uint32, decode_int32 (non-negative values), decode_uint64.
decode_uint(p, b) == decode_varint(p, b)

\* ProtobufLib.decode_bool: a varint that is 0 or 1.
decode_bool(p, b) ==
    LET r == decode_varint(p, b)
    IN  IF ~r.success \/ r.val > 1
        THEN [success |-> FALSE, pos |-> p, val |-> FALSE]
        ELSE [success |-> TRUE, pos |-> r.pos, val |-> (r.val = 1)]

\* ProtobufLib.decode_length_delimited: a varint size, which must fit in the
\* buffer; returns the position of the first payload byte and the size.
decode_length_delimited(p, b) ==
    LET r == decode_varint(p, b)
    IN  IF ~r.success \/ r.pos + r.val > Len(b)
        THEN [success |-> FALSE, pos |-> p, val |-> 0]
        ELSE r

\* ProtobufLib.decode_bytes returns (bool, uint64 pos, uint64 size).
decode_bytes(p, b) == decode_length_delimited(p, b)

\* ProtobufLib.decode_string returns the payload and the position after it.
decode_string(p, b) ==
    LET r == decode_length_delimited(p, b)
    IN  IF ~r.success
        THEN [success |-> FALSE, pos |-> p, val |-> <<>>]
        ELSE [success |-> TRUE, pos |-> r.pos + r.val,
              val |-> SubSeq(b, r.pos + 1, r.pos + r.val)]

\* ProtobufLib.decode_fixed32: four bytes, little-endian.
decode_fixed32(p, b) ==
    IF p + 4 > Len(b)
    THEN [success |-> FALSE, pos |-> p, val |-> 0]
    ELSE [success |-> TRUE, pos |-> p + 4,
          val |-> b[p + 1] + 256 * b[p + 2] + 65536 * b[p + 3] + 16777216 * b[p + 4]]

RECURSIVE encode_varint(_)
encode_varint(val) ==
    IF val < 128 THEN <<val>> ELSE <<128 + (val % 128)>> \o encode_varint(val \div 128)

\* ProtobufLib.encode_key(field_number, wire_type, pos, buf)
encode_key(field_number, wire_type) ==
    encode_varint(field_number * 8 + WireTypeCode(wire_type))

encode_bool(v) == IF v THEN <<1>> ELSE <<0>>

encode_length_delimited(v) == encode_varint(Len(v)) \o v

encode_fixed32(v) ==
    << v % 256, (v \div 256) % 256, (v \div 65536) % 256, (v \div 16777216) % 256 >>

----------------------------------------------------------------------------
(* The printed decoder *)

\* check_key: the wire type each branch compares with; "none" is the
\* default branch "return false; // Unknown field type".
CheckKeyWireType(field) ==
    CASE field.type \in {"int32", "int64", "uint32", "uint64", "sint32", "sint64",
                         "bool", "enum"} -> "Varint"
      [] field.type \in {"fixed64", "sfixed64", "double"} -> "Bits64"
      [] field.type \in {"fixed32", "sfixed32", "float"} -> "Bits32"
      [] field.type \in {"string", "bytes", "message"} -> "LengthDelimited"
      [] OTHER -> "none"

check_key(fs, field_number, wire_type) ==
    IF field_number \in FieldNumbers(fs)
    THEN wire_type = CheckKeyWireType(FieldByNumber(fs, field_number))
    ELSE FALSE

\* The body printed for one field inside decode_field.  A repeated string or
\* bytes value is decoded and dropped (the assignment is a comment).  For
\* every other type "instance.<name> = value;" is printed, whatever the label
\* of the field: the member of a repeated field then holds the one value, an
\* array of one element.
generateFieldDecoding(field, p, b, inst) ==
    LET n == field.number
        Fail == [success |-> FALSE, pos |-> p, instance |-> inst]
        Store(r, v, np) ==
            IF ~r.success THEN Fail
            ELSE [success |-> TRUE, pos |-> np,
                  instance |-> IF isFieldRepeated(field)
                               THEN IF field.type \in {"string", "bytes"}
                                    THEN inst ELSE [inst EXCEPT ![n] = <<v>>]
                               ELSE [inst EXCEPT ![n] = v]]
    IN  CASE field.type = "string" ->
               LET r == decode_string(p, b) IN Store(r, r.val, r.pos)
          [] field.type \in {"uint32", "int32"} ->
               LET r == decode_uint(p, b) IN Store(r, r.val, r.pos)
          [] field.type = "bool" ->
               LET r == decode_bool(p, b) IN Store(r, r.val, r.pos)
          [] field.type = "bytes" ->
               LET r == decode_bytes(p, b)
               IN  Store(r, SubSeq(b, r.pos + 1, r.pos + r.val), r.pos + r.val)
          [] field.type = "fixed32" ->
               LET r == decode_fixed32(p, b) IN Store(r, r.val, r.pos)
          [] OTHER -> Fail

decode_field(fs, p, b, field_number, inst) ==
    IF field_number \in FieldNumbers(fs)
    THEN generateFieldDecoding(FieldByNumber(fs, field_number), p, b, inst)
    ELSE [success |-> FALSE, pos |-> p, instance |-> inst]

\* "if (field_number > len(fields))"
FieldNumberOutOfBounds(fs, field_number) == field_number > Len(fs)

\* The check with "<" in place of "<=": a repeated key passes.
MonotonicCheckFails_Less(allow, field_number, previous) ==
    ~allow /\ field_number < previous

\* "if (field_number <= previous_field_number)", printed unless
\* allowNonMonotonicFields.
MonotonicCheckFails(allow, field_number, previous) ==
    ~allow /\ field_number <= previous

\* The loop body with "(success, pos) = decode_field(...)" leaving the cursor
\* where the iteration found it.
decode_iteration_Stay(fs, allow, b, p, previous, inst) ==
    LET k == decode_key(p, b)
        f == decode_field(fs, k.pos, b, k.field_number, inst)
        Return(q, i) == [returned |-> TRUE, pos |-> q, previous |-> previous,
                         instance |-> i, key |-> k]
    IN  IF ~k.success THEN Return(k.pos, inst)
        ELSE IF FieldNumberOutOfBounds(fs, k.field_number) THEN Return(k.pos, inst)
        ELSE IF MonotonicCheckFails(allow, k.field_number, previous) THEN Return(k.pos, inst)
        ELSE IF ~check_key(fs, k.field_number, k.wire_type) THEN Return(k.pos, inst)
        ELSE IF ~f.success THEN Return(f.pos, f.instance)
        ELSE [returned |-> FALSE, pos |-> p, previous |-> 0,
              instance |-> f.instance, key |-> k]

\* One pass through the body of decode's while loop.  returned = TRUE: the
\* body executed "return (false, pos, instance)".
decode_iteration(fs, allow, b, p, previous, inst) ==
    LET k == decode_key(p, b)
        f == decode_field(fs, k.pos, b, k.field_number, inst)
        Return(q, i) == [returned |-> TRUE, pos |-> q, previous |-> previous,
                         instance |-> i, key |-> k]
    IN  IF ~k.success THEN Return(k.pos, inst)
        ELSE IF FieldNumberOutOfBounds(fs, k.field_number) THEN Return(k.pos, inst)
        ELSE IF MonotonicCheckFails(allow, k.field_number, previous) THEN Return(k.pos, inst)
        ELSE IF ~check_key(fs, k.field_number, k.wire_type) THEN Return(k.pos, inst)
        ELSE IF ~f.success THEN Return(f.pos, f.instance)
        ELSE [returned |-> FALSE, pos |-> f.pos, previous |-> k.field_number,
              instance |-> f.instance, key |-> k]

\* "while (pos - initial_pos < len)"
LoopGuard(p, ip, l) == p - ip < l

\* The whole printed decode(initial_pos, buf, len).
RECURSIVE decode_from(_, _, _, _, _, _, _, _)
decode_from(fs, allow, b, ip, l, p, previous, inst) ==
    IF ~LoopGuard(p, ip, l)
    THEN [success |-> TRUE, pos |-> p, instance |-> inst]
    ELSE LET it == decode_iteration(fs, allow, b, p, previous, inst)
         IN  IF it.returned
             THEN [success |-> FALSE, pos |-> it.pos, instance |-> it.instance]
             ELSE decode_from(fs, allow, b, ip, l, it.pos, it.previous, it.instance)

decode(fs, allow, ip, b, l) == decode_from(fs, allow, b, ip, l, ip, 0, DefaultInstance(fs))

----------------------------------------------------------------------------
(* The printed encoder (singular fields and packed arrays) *)

\* The wire type encode_<N> passes to ProtobufLib.encode_key.
EncodeKeyWireType(field) ==
    CASE isFieldRepeated(field) -> "LengthDelimited"
      [] field.type \in {"int32", "int64", "uint32", "uint64", "sint32", "sint64",
                         "fixed32", "fixed64", "sfixed32", "sfixed64", "float",
                         "double", "bool", "enum"} -> "Varint"
      [] OTHER -> "LengthDelimited"

\* typeToEncodeSol: the ProtobufLib routine that writes the value.
typeToEncodeSol(field, v) ==
    CASE field.type \in {"uint32", "int32", "uint64", "int64", "enum"} -> encode_varint(v)
      [] field.type = "fixed32" -> encode_fixed32(v)
      [] field.type = "bool" -> encode_bool(v)
      [] field.type \in {"string", "bytes"} -> encode_length_delimited(v)

\* "for (uint64 i = 0; i < instance.<name>.length; i++)": the elements one
\* after the other (the first half of the array, then the second).
RECURSIVE EncodeElements(_, _)
EncodeElements(field, elements) ==
    IF elements = <<>> THEN <<>>
    ELSE IF Len(elements) = 1 THEN typeToEncodeSol(field, elements[1])
    ELSE EncodeElements(field, SubSeq(elements, 1, Len(elements) \div 2))
         \o EncodeElements(field, SubSeq(elements, Len(elements) \div 2 + 1, Len(elements)))

\* "uint64 len = pos - len_pos - 1; buf[len_pos] = bytes1(uint8(len));": the
\* one byte reserved at len_pos takes the low eight bits of the length.
BackPatchedLength(payload) == <<Len(payload) % 256>>

\* encode_<N> of a packed array: nothing when it is empty, else the key, the
\* byte at len_pos and the elements.
encode_packed(field, elements) ==
    IF Len(elements) = 0 THEN <<>>
    ELSE encode_key(field.number, EncodeKeyWireType(field))
         \o BackPatchedLength(EncodeElements(field, elements))
         \o EncodeElements(field, elements)

\* encode_<N>: nothing for the zero value, else key then value.
encode_field(field, inst) ==
    IF isFieldRepeated(field) THEN encode_packed(field, inst[field.number])
    ELSE IF inst[field.number] = DefaultValue(field)
    THEN <<>>
    ELSE encode_key(field.number, EncodeKeyWireType(field))
         \o typeToEncodeSol(field, inst[field.number])

\* The order in which encode() calls encode_<N>: "for _, field := range fields".
EncoderCallOrder(fs) == [i \in 1..Len(fs) |-> fs[i].number]

RECURSIVE encode_calls(_, _, _)
encode_calls(fs, order, inst) ==
    IF order = <<>> THEN <<>>
    ELSE encode_field(FieldByNumber(fs, Head(order)), inst)
         \o encode_calls(fs, Tail(order), inst)

encode(fs, inst) == encode_calls(fs, EncoderCallOrder(fs), inst)

----------------------------------------------------------------------------
(* Inputs *)

RawBuffers == UNION {[1..n -> ByteAlphabet] : n \in 0..MaxBufLen}

Strings == UNION {[1..n -> ValueAlphabet] : n \in 0..MaxStrLen}

\* The lengths of the arrays of encoded instances: empty, short, and around
\* the first payload size that does not fit in seven bits.  Every element
\* is the value 1, one byte on the wire.
ArrayLengths == {0, 1, 2, MaxPayload - 1, MaxPayload}

ValuesOf(field) ==
    CASE isFieldRepeated(field) -> {[i \in 1..n |-> 1] : n \in ArrayLengths}
      [] field.type = "bool" -> BOOLEAN
      [] field.type \in {"string", "bytes"} -> Strings
      [] OTHER -> 0..MaxValue

RECURSIVE InstancesOf(_)
InstancesOf(fs) ==
    IF fs = <<>> THEN {<<>>}
    ELSE {(Head(fs).number :> v) @@ rest :
              v \in ValuesOf(Head(fs)), rest \in InstancesOf(Tail(fs))}

----------------------------------------------------------------------------
(* Inputs of the generator *)

\* Entries of the parameter string, each as strings.Split(entry, "=") returns
\* it: recognised options with legal and illegal values, an unknown option,
\* an entry without "=" and an entry with two.
ParameterEntries ==
    { <<"license", "MIT">>, <<"license", "a", "b">>, <<"license">>,
      <<"compile", "compile">>, <<"compile", "link">>, <<"compile", "inline">>,
      <<"generate", "all">>, <<"generate", "encoder">>, <<"generate", "none">>,
      <<"strict_field_numbers", "true">>, <<"strict_field_numbers", "false">>,
      <<"strict_field_numbers", "1">>,
      <<"strict_enum_validation", "true">>, <<"strict_enum_validation", "false">>,
      <<"allow_empty_packed_arrays", "true">>,
      <<"allow_non_monotonic_fields", "true">>, <<"allow_non_monotonic_fields", "no">>,
      <<"protobuf_lib_import", "ProtobufLib">>, <<"protobuf_lib_import", "ProtobufLib.sol">>,
      <<"unknown", "1">> }

\* The parameter strings: empty, one entry, and two entries of which the
\* first is a strictness switch.
Parameters ==
    {<<>>} \cup {<<e>> : e \in ParameterEntries}
    \cup {<<e1, e2>> : e1 \in {<<"strict_field_numbers", "true">>,
                               <<"strict_enum_validation", "false">>},
                       e2 \in {<<"strict_field_numbers", "false">>,
                               <<"strict_enum_validation", "true">>,
                               <<"compile", "link">>, <<"unknown", "1">>}}

Descriptor(name, fs, nested) == [name |-> name, field |-> fs, nested_type |-> nested]

File(syntax, messages) == [name |-> "t.proto", syntax |-> syntax, message_type |-> messages]

NoFile == [name |-> "", syntax |-> "", message_type |-> <<>>]

\* Lists of distinct field numbers, in any order.
NumberLists ==
    {ns \in UNION {[1..n -> 1..MaxFieldNumber] : n \in 0..MaxFields} :
        \A i, j \in 1..Len(ns) : i # j => ns[i] # ns[j]}

Uint32Fields(ns) == [i \in 1..Len(ns) |-> Field(ns[i], "uint32")]

\* Field n of type t, singular, repeated or repeated and packed.
FieldKinds(n) ==
    UNION {{Field(n, t),
            [Field(n, t) EXCEPT !.label = "repeated"],
            [Field(n, t) EXCEPT !.label = "repeated", !.packed = TRUE]} :
           t \in {"uint32", "bool", "double", "string", "bytes"}}

\* Fields numbered 1..k, each of any kind.
RECURSIVE KindLists(_)
KindLists(k) ==
    IF k = 0 THEN {<<>>}
    ELSE {Append(fs, f) : fs \in KindLists(k - 1), f \in FieldKinds(k)}

\* The files handed to generateFile: one message with or without a nested
\* message, two messages, one message with fields of every kind, and files
\* that are not proto3.
Files ==
    {File("proto3", <<Descriptor("M", Uint32Fields(ns), <<>>)>>) : ns \in NumberLists}
    \cup {File("proto3", <<Descriptor("M", Uint32Fields(ns),
                                      <<Descriptor("N", Uint32Fields(ms), <<>>)>>)>>) :
             ns \in NumberLists, ms \in NumberLists}
    \cup {File("proto3", <<Descriptor("M", Uint32Fields(ns), <<>>),
                           Descriptor("N", Uint32Fields(ms), <<>>)>>) :
             ns \in NumberLists, ms \in NumberLists}
    \cup {File("proto3", <<Descriptor("M", fs, <<>>)>>) :
             fs \in UNION {KindLists(k) : k \in 1..MaxFields}}
    \cup {File(syn, <<Descriptor("M", Uint32Fields(<<1>>), <<>>)>>) : syn \in {"", "proto2"}}

EnumValueNames == <<"A", "B", "C", "D", "E">>

NoEnum == [name |-> <<>>, value |-> <<>>]

\* The enums handed to generateEnum.  protoc refuses a proto3 enum whose first
\* value is not 0, and an enum without values.
Enums ==
    {[name |-> <<"E">>,
      value |-> [i \in 1..Len(ns) |-> [name |-> EnumValueNames[i], number |-> ns[i]]]] :
       ns \in {ms \in UNION {[1..n -> -1..MaxEnumNumber] : n \in 1..MaxEnumValues} :
                  ms[1] = 0}}

----------------------------------------------------------------------------
(* The plugin run as a state machine: New, ParseParameters, then            *)
(* generateFile on a file or generateEnum on an enum.                       *)

\* No run of Generate is under way.
RunIdle ==
    /\ request = <<>>
    /\ run = <<>>

\* No pure function is being applied.
FnIdle ==
    /\ fn = "none"
    /\ arg = <<>>
    /\ ret = NoResult
    /\ fnPc = "idle"
    /\ asm = NoLocals

\* No plugin run is under way.
GenIdle ==
    /\ g = New
    /\ parameter = <<>>
    /\ genPc = "idle"
    /\ protoFile = NoFile
    /\ enumDescriptor = NoEnum
    /\ err = Nil
    /\ out = <<>>

CodecIdle ==
    /\ fields = <<>>
    /\ mode = "none"
    /\ x = <<>>
    /\ encodeCalls = <<>>
    /\ buf = <<>>
    /\ initial_pos = 0
    /\ len = 0
    /\ pc = "idle"
    /\ pos = 0
    /\ previous_field_number = 0
    /\ instance = <<>>
    /\ success = FALSE
    /\ keys = <<>>
    /\ defaultSeen = FALSE

GenInit ==
    /\ g = New
    /\ parameter \in Parameters
    /\ genPc = "new"
    /\ protoFile = NoFile
    /\ enumDescriptor = NoEnum
    /\ err = Nil
    /\ out = <<>>
    /\ CodecIdle
    /\ FnIdle
    /\ RunIdle

\* main: g.ParseParameters(); an error (or a panic) ends the run.
RunParseParameters ==
    /\ genPc = "new"
    /\ LET r == ParseParameters(g, parameter)
       IN  /\ g' = r.g
           /\ err' = r.err
           /\ genPc' = IF r.err = Nil THEN "parsed" ELSE "failed"
    /\ UNCHANGED <<parameter, protoFile, enumDescriptor, out>>
    /\ UNCHANGED <<codecVars, fnVars, runVars>>

\* Generate: g.generateFile(protoFile); an error ends the run.
RunGenerateFile ==
    /\ genPc = "parsed"
    /\ \E f \in Files :
          /\ protoFile' = f
          /\ err' = generateFile(g, f)
    /\ genPc' = "file"
    /\ UNCHANGED <<g, parameter, enumDescriptor, out>>
    /\ UNCHANGED <<codecVars, fnVars, runVars>>

\* g.generateEnum(descriptor, b)
RunGenerateEnum ==
    /\ genPc = "parsed"
    /\ \E e \in Enums :
          LET r == generateEnum(g, e)
          IN  /\ enumDescriptor' = e
              /\ err' = r.err
              /\ out' = r.printed
              /\ g' = IF r.err = Nil
                      THEN [g EXCEPT !.enumMaxes = (r.enumName :> r.enumMax) @@ g.enumMaxes]
                      ELSE g
    /\ genPc' = "enum"
    /\ UNCHANGED <<parameter, protoFile>>
    /\ UNCHANGED <<codecVars, fnVars, runVars>>

GenNext == RunParseParameters \/ RunGenerateFile \/ RunGenerateEnum

SpecGen == GenInit /\ [][GenNext]_vars

----------------------------------------------------------------------------
(* The codec as a state machine: an instance is encoded and the bytes are   *)
(* decoded, or decode is called on raw bytes.                               *)

\* generateMessageCodec: which of decode and encode the codec library holds.
\* The parameter strings the codec is printed under: both halves of the codec,
\* with and without the monotonic check.
CodecParameters ==
    { << <<"generate", "all">> >>,
      << <<"generate", "all">>, <<"allow_non_monotonic_fields", "true">> >> }

\* The codec of a schema, printed by a generator configured by `parameter`.
CodecInit ==
    /\ parameter \in CodecParameters
    /\ g = ParseParameters(New, parameter).g
    /\ genPc = "printed"
    /\ protoFile = NoFile
    /\ enumDescriptor = NoEnum
    /\ err = Nil
    /\ out = <<>>
    /\ fields \in CodecSchemas
    /\ mode = "none"
    /\ x = DefaultInstance(fields)
    /\ encodeCalls = <<>>
    /\ buf = <<>>
    /\ initial_pos = 0
    /\ len = 0
    /\ pc = "init"
    /\ pos = 0
    /\ previous_field_number = 0
    /\ instance = DefaultInstance(fields)
    /\ success = FALSE
    /\ keys = <<>>
    /\ defaultSeen = FALSE
    /\ FnIdle
    /\ RunIdle

\* decode's entry: instance, previous_field_number and pos are initialised.
EnterDecode(b, ip, l) ==
    /\ buf' = b
    /\ initial_pos' = ip
    /\ len' = l
    /\ pos' = ip
    /\ previous_field_number' = 0
    /\ instance' = DefaultInstance(fields)
    /\ pc' = "loop"

\* encode(0, buf, x) fills the buffer.
Encode ==
    /\ pc = "init"
    /\ EncoderPrinted(g)
    /\ \E v \in InstancesOf(fields) :
          /\ x' = v
          /\ buf' = encode(fields, v)
    /\ encodeCalls' = EncoderCallOrder(fields)
    /\ mode' = "roundtrip"
    /\ pc' = "encoded"
    /\ UNCHANGED <<genVars, fnVars, runVars, fields, initial_pos, len, pos,
                   previous_field_number, instance, success, keys, defaultSeen>>

\* decode(0, buf, buf.length) is called on the encoder's output.
DecodeEncoded ==
    /\ pc = "encoded"
    /\ DecoderPrinted(g)
    /\ EnterDecode(buf, 0, Len(buf))
    /\ UNCHANGED <<genVars, fnVars, runVars, fields, mode, x, encodeCalls, success,
                   keys, defaultSeen>>

\* decode(0, b, l) is called on bytes from outside.
DecodeRaw ==
    /\ pc = "init"
    /\ DecoderPrinted(g)
    /\ \E b \in RawBuffers :
          \E d \in 0..MaxSlack :
              /\ d <= Len(b)
              /\ EnterDecode(b, 0, Len(b) - d)
    /\ mode' = "raw"
    /\ UNCHANGED <<genVars, fnVars, runVars, fields, x, encodeCalls, success,
                   keys, defaultSeen>>

\* One iteration of decode's while loop.
DecodeLoop ==
    /\ pc = "loop"
    /\ LoopGuard(pos, initial_pos, len)
    /\ LET it == decode_iteration(fields, g.allowNonMonotonicFields, buf, pos,
                                  previous_field_number, instance)
           k  == it.key
       IN  /\ pos' = it.pos
           /\ previous_field_number' = it.previous
           /\ instance' = it.instance
           /\ pc' = IF it.returned THEN "done" ELSE "loop"
           /\ success' = FALSE
           /\ keys' = IF k.success THEN Append(keys, k.field_number) ELSE keys
           /\ defaultSeen' =
                 (defaultSeen
                  \/ (~it.returned
                      /\ ~isFieldRepeated(FieldByNumber(fields, k.field_number))
                      /\ it.instance[k.field_number]
                            = DefaultValue(FieldByNumber(fields, k.field_number))))
    /\ UNCHANGED <<genVars, fnVars, runVars, fields, mode, x, encodeCalls, buf,
                   initial_pos, len>>

\* The loop guard is false: "return (true, pos, instance);".
DecodeReturn ==
    /\ pc = "loop"
    /\ ~LoopGuard(pos, initial_pos, len)
    /\ success' = TRUE
    /\ pc' = "done"
    /\ UNCHANGED <<genVars, fnVars, runVars, fields, mode, x, encodeCalls, buf,
                   initial_pos, len, pos, previous_field_number, instance,
                   keys, defaultSeen>>

CodecNext == Encode \/ DecodeEncoded \/ DecodeRaw \/ DecodeLoop \/ DecodeReturn

Spec == CodecInit /\ [][CodecNext]_vars

\* Weak fairness of DecodeLoop with its enabling condition written out.  The
\* body of the loop is defined whenever the guard holds and every pass
\* changes the state (it returns, or it appends the key it read to keys), so
\* ENABLED <<DecodeLoop>>_vars is the guard of the loop.
Fair_DecodeLoop ==
    \/ []<>~(pc = "loop" /\ LoopGuard(pos, initial_pos, len))
    \/ []<><<DecodeLoop>>_vars

\* A call of decode runs to its return: the step the function is at is taken.
SpecLive == Spec /\ WF_vars(DecodeReturn) /\ Fair_DecodeLoop

----------------------------------------------------------------------------
(* Properties of the printed codec, checked under Spec *)

\* The schema passes generateFile's validation even with strict_field_numbers=true.
SchemaAccepted(fs) ==
    generateFile(ParseParameters(New, << <<"strict_field_numbers", "true">> >>).g,
                 File("proto3", <<Descriptor("M", fs, <<>>)>>)) = Nil

\* Some key's field number is less than or equal to that of the key decoded
\* immediately before it.
NonMonotonic(ks) == \E i \in 2..Len(ks) : ks[i] <= ks[i - 1]

StrictlyIncreasing(ks) == \A i, j \in 1..Len(ks) : i < j => ks[i] < ks[j]

\* C1: for every accepted schema and every instance x, decode applied to the
\* bytes encode produced for x succeeds and yields x.
C1_RoundTrip ==
    (mode = "roundtrip" /\ pc = "done" /\ SchemaAccepted(fields))
        => (success /\ instance = x)

\* C2: two distinct byte strings that decode both accepts for the same message
\* type never decode to the same instance.
C2_DecodeInjective ==
    (mode = "raw" /\ pc = "done" /\ success /\ len = Len(buf))
        => \A b \in RawBuffers :
              LET r == decode(fields, g.allowNonMonotonicFields, 0, b, Len(b))
              IN  (b # buf /\ r.success) => r.instance # instance

\* C3: with allow_non_monotonic_fields=false, decode fails on every buffer in
\* which some key's field number is less than or equal to the field number of
\* the key decoded immediately before it.
C3_MonotonicRejected ==
    (pc = "done" /\ ~g.allowNonMonotonicFields /\ NonMonotonic(keys)) => ~success

\* C3, its case: decode has returned failure at a key that names a field of the
\* message, after a key with the same or a larger field number.
C3_Witness ==
    /\ pc = "done"
    /\ ~g.allowNonMonotonicFields
    /\ ~success
    /\ Len(keys) = 2
    /\ keys[2] <= keys[1]
    /\ keys[2] \in FieldNumbers(fields)
    /\ ~FieldNumberOutOfBounds(fields, keys[2])

\* C4: decode fails when the buffer explicitly encodes a singular scalar field
\* with its zero value.
C4_DefaultRejected == (pc = "done" /\ defaultSeen) => ~success

\* C5: whenever decode(initial_pos, buf, len) returns success, its cursor is at
\* initial_pos + len.
C5_ConsumesExactlyLen == (pc = "done" /\ success) => pos = initial_pos + len

\* C6: for every accepted schema, encode calls the per-field encoders in
\* ascending field-number order, so the keys its own decoder reads back are
\* strictly increasing.
C6_EncodeAscending ==
    (mode = "roundtrip" /\ SchemaAccepted(fields))
        => /\ StrictlyIncreasing(encodeCalls)
           /\ (pc = "done" => ~NonMonotonic(keys))

----------------------------------------------------------------------------
(* Properties of the generator, checked under SpecGen *)

\* The enum's values in declaration order are exactly 0, 1, 2, ...
Sequential(e) == \A i \in 1..Len(e.value) : e.value[i].number = i - 1

\* The first value that breaks the sequence.
FirstOffending(e) ==
    e.value[CHOOSE i \in 1..Len(e.value) :
               /\ e.value[i].number # i - 1
               /\ \A j \in 1..(i - 1) : e.value[j].number = j - 1]

\* All value names in declaration order, separated by ", ".
EnumDeclaration(e) ==
    [k \in 1..(2 * Len(e.value) - 1) |->
        IF k % 2 = 1 THEN e.value[(k + 1) \div 2].name ELSE ", "]

\* C7: with strict enum validation an enum is accepted exactly when its values
\* are 0, 1, 2, ... in declaration order, and the error names the enum and the
\* first offending value; without it every enum is accepted and the
\* declaration printed lists all values, correctly separated.
C7_EnumValidation ==
    genPc = "enum" =>
        IF g.strictEnumValidation
        THEN /\ (err = Nil) <=> Sequential(enumDescriptor)
             /\ ~Sequential(enumDescriptor) =>
                   err = <<"enums must start at 0 and increment by 1: ",
                           enumDescriptor.name, ".", FirstOffending(enumDescriptor).name>>
        ELSE /\ err = Nil
             /\ out = EnumDeclaration(enumDescriptor)

\* The messages of a file, nested messages included.
RECURSIVE MessagesOf(_)
MessagesOf(descriptors) ==
    IF descriptors = <<>> THEN {}
    ELSE {Head(descriptors)} \cup MessagesOf(Head(descriptors).nested_type)
         \cup MessagesOf(Tail(descriptors))

\* The field numbers, sorted ascending, are exactly 1, 2, ..., n.
NumbersAreOneToN(fs) ==
    /\ FieldNumbers(fs) = 1..Len(fs)
    /\ \A i, j \in 1..Len(fs) : i # j => fs[i].number # fs[j].number

\* C8: with strict_field_numbers=true, generation of a file fails exactly when
\* some message of the file, nested messages included, has field numbers that
\* sorted ascending are not 1, 2, ..., n.
C8_StrictFieldNumbers ==
    (genPc = "file" /\ g.strictFieldNumberValidation /\ protoFile.syntax = "proto3"
     /\ checkRepeatedNumericFieldsOfMessages(protoFile.message_type) = Nil)
        => ((err # Nil)
            <=> \E m \in MessagesOf(protoFile.message_type) : ~NumbersAreOneToN(m.field))

\* C9: a generator given no parameters has every validation rule strict.
C9_DefaultsStrict ==
    (genPc # "new" /\ parameter = <<>>)
        => /\ g.strictFieldNumberValidation
           /\ g.strictEnumValidation
           /\ ~g.allowEmptyPackedArrays
           /\ ~g.allowNonMonotonicFields

\* The field breaks the packed-flag rule: repeated scalar-numeric without the
\* flag, or repeated message, string or bytes with it.
BreaksPackedRule(field) ==
    /\ isFieldRepeated(field)
    /\ \/ field.type \in RepeatedNumericTypes /\ ~isFieldPacked(field)
       \/ field.type \in {"message", "string", "bytes"} /\ isFieldPacked(field)

\* C10: generation fails when a repeated scalar-numeric field lacks the packed
\* flag or a repeated message, string or bytes field carries it, and accepts
\* every other repeated field.
C10_PackedValidation ==
    (genPc = "file" /\ protoFile.syntax = "proto3"
     /\ checkFieldNumbersOfMessages(protoFile.message_type,
                                    g.strictFieldNumberValidation) = Nil)
        => ((err # Nil)
            <=> \E i \in 1..Len(protoFile.message_type) :
                   \E j \in 1..Len(protoFile.message_type[i].field) :
                      BreaksPackedRule(protoFile.message_type[i].field[j]))

\* C11: ParseParameters accepts compile=inline without error, and answers
\* compile=link with an error that says the feature is unimplemented.
C11_CompileFlag ==
    genPc \in {"parsed", "failed"} =>
        /\ parameter = << <<"compile", "inline">> >> => err = Nil
        /\ parameter = << <<"compile", "link">> >>
              => err = <<"unimplemented feature ", "link">>

----------------------------------------------------------------------------
(* The pure functions as a state machine: a function is called on an input  *)
(* and returns.                                                             *)

\* The characters short names are made of.
NameAlphabet == {"i", "n", "t", "8", "_"}

\* The names handed to sanitizeKeyword: every name over NameAlphabet up to
\* MaxNameLen characters (the empty name included), and longer names of each
\* kind: reserved words, built-in numeric types, names that begin with a
\* digit, names that begin with "_", and ordinary names.
Names ==
    UNION {[1..n -> NameAlphabet] : n \in 0..MaxNameLen}
    \cup { <<"w", "h", "i", "l", "e">>, <<"s", "t", "r", "i", "n", "g">>,
           <<"u", "i", "n", "t", "8">>, <<"u", "i", "n", "t", "4", "0">>,
           <<"u", "i", "n", "t", "2", "5", "6">>, <<"i", "n", "t", "1", "6">>,
           <<"i", "n", "t", "2", "5", "6">>, <<"i", "n", "t", "e", "g", "e", "r">>,
           <<"i", "n", "t", "x", "1">>, <<"u", "i", "n", "t", "7">>,
           <<"1", "a", "b", "c">>, <<"9">>, <<"_", "w", "h", "i", "l", "e">>,
           <<"v", "a", "l", "u", "e">>, <<"W", "h", "i", "l", "e">> }

\* The field names of the messages handed to ProcessFieldNames: a name, a
\* reserved word and int, with the spellings their escapes and suffixed
\* escapes take.
FieldNameChoices ==
    { <<"x">>, <<"_", "x">>, <<"_", "x", "_", "1">>, <<"_", "_", "x", "_", "1">>,
      <<"w", "h", "i", "l", "e">>, <<"_", "w", "h", "i", "l", "e">>,
      <<"_", "w", "h", "i", "l", "e", "_", "1">>, <<"i", "n", "t">> }

\* Messages of up to MaxNamedFields fields numbered 1, 2, ... whose declared
\* names differ (protoc refuses a message that declares a name twice).
NamedFieldLists ==
    {[i \in 1..Len(ns) |-> [name |-> ns[i], number |-> i]] :
        ns \in {ms \in UNION {[1..n -> FieldNameChoices] : n \in 0..MaxNamedFields} :
                   \A i, j \in 1..Len(ms) : i # j => ms[i] # ms[j]}}

\* deepest directory of a .proto file and most segments of a package name
MaxPathDepth == 2

DirectoryNames == { <<"a">>, <<"b">> }

\* Directory paths: up to MaxPathDepth directory names.
DirectoryPaths == UNION {[1..n -> DirectoryNames] : n \in 0..MaxPathDepth}

\* The .proto files of a request: a file x.proto or y.proto in a directory,
\* with a package of its own.
ProtoFileNames ==
    {Join(Append(d, base \o <<".", "p", "r", "o", "t", "o">>), <<"/">>) :
        d \in DirectoryPaths, base \in { <<"x">>, <<"y">> }}

PackageNames == {Join(d, <<".">>) : d \in DirectoryPaths}

\* Two files of a request, the first importing the second.
FilePairs ==
    {[protoFile |-> [name |-> fname, package |-> pkg, dependency |-> <<dname>>],
      dependencyFile |-> [name |-> dname, package |-> dpkg, dependency |-> <<>>]] :
        fname \in ProtoFileNames, pkg \in PackageNames,
        dname \in ProtoFileNames, dpkg \in PackageNames}

\* A file that imports one other file, and the file it imports.
ImportingFiles ==
    {pair \in FilePairs : pair.protoFile.name # pair.dependencyFile.name}

\* most distance of an exponent from the bias
MaxShift == 11

\* The values handed to the two helpers, by sign, exponent and the top
\* three bits of the mantissa: zero, denormals, infinity, NaN, and finite
\* values from 2^-MaxShift up.
ScaledInputs(format) ==
    {[sign |-> s, exponent |-> e, top |-> t] :
        s \in {0, 1},
        e \in {0, format.exponentMask}
               \cup {format.bias + d : d \in (0 - MaxShift)..MaxShift},
        t \in 0..7}

\* The bit pattern of such a value.
RawValue(format, v) ==
    or(ShlBits(format.signBit, Word(v.sign)),
       or(ShlBits(format.mantissaBits, Word(v.exponent)),
          ShlBits(format.mantissaBits - 3, Word(v.top))))

FnInit ==
    /\ GenIdle
    /\ CodecIdle
    /\ \/ fn = "sanitizeKeyword" /\ arg \in Names
       \/ fn = "ProcessFieldNames" /\ arg \in NamedFieldLists
       \/ fn = "GenerateImports" /\ arg \in ImportingFiles
       \/ fn = "decode_float_scaled" /\ arg \in ScaledInputs(FloatFormat)
       \/ fn = "decode_double_scaled" /\ arg \in ScaledInputs(DoubleFormat)
    /\ ret = NoResult
    /\ fnPc = "call"
    /\ asm = NoLocals
    /\ RunIdle

Call_sanitizeKeyword ==
    /\ fnPc = "call"
    /\ fn = "sanitizeKeyword"
    /\ ret' = sanitizeKeyword(arg)
    /\ fnPc' = "returned"
    /\ UNCHANGED <<genVars, codecVars, runVars, fn, arg, asm>>

Call_ProcessFieldNames ==
    /\ fnPc = "call"
    /\ fn = "ProcessFieldNames"
    /\ ret' = ProcessFieldNames(arg)
    /\ fnPc' = "returned"
    /\ UNCHANGED <<genVars, codecVars, runVars, fn, arg, asm>>

Call_GenerateImports ==
    /\ fnPc = "call"
    /\ fn = "GenerateImports"
    /\ ret' = Returned(GenerateImports(g.protobufLibImportPath, arg.protoFile,
                                       GenerateOutputFileName(arg.protoFile)))
    /\ fnPc' = "returned"
    /\ UNCHANGED <<genVars, codecVars, runVars, fn, arg, asm>>

\* The helper whose assembly block is being run.
Format == IF fn = "decode_float_scaled" THEN FloatFormat ELSE DoubleFormat

Scaled == fn \in {"decode_float_scaled", "decode_double_scaled"}

\* "(success, new_pos, raw_value) = ProtobufLib.decode_fixed32(pos, buf)",
\* when it succeeds, and "int32 scaled_value;".
Scaled_Decode ==
    /\ Scaled
    /\ fnPc = "call"
    /\ asm' = Locals(RawValue(Format, arg), Word(0), Word(0), Word(0), Word(0), Word(0),
                     Word(0))
    /\ fnPc' = "extract"
    /\ UNCHANGED <<genVars, codecVars, runVars, fn, arg, ret>>

\* "let sign := shr(31, raw_value)", "let exponent := ...", "let mantissa := ..."
Asm_Extract ==
    /\ Scaled
    /\ fnPc = "extract"
    /\ asm' = [asm EXCEPT
                 !.sign = shr(Word(Format.signBit), asm.raw_value),
                 !.exponent = and(shr(Word(Format.mantissaBits), asm.raw_value),
                                  Word(Format.exponentMask)),
                 !.mantissa = and(asm.raw_value, Ones(Format.mantissaBits))]
    /\ fnPc' = "special"
    /\ UNCHANGED <<genVars, codecVars, runVars, fn, arg, ret>>

\* "if eq(exponent, 0) { scaled_value := 0 }" and
\* "if eq(exponent, 0xFF) { scaled_value := 0x7FFFFFFF }": both assign
\* scaled_value and go on to the normal case.
Asm_SpecialCases ==
    /\ Scaled
    /\ fnPc = "special"
    /\ asm' = [asm EXCEPT
                 !.scaled_value =
                     IF eq(asm.exponent, Word(Format.exponentMask))
                     THEN Ones(8 * Format.bytes - 1)
                     ELSE IF eq(asm.exponent, Word(0)) THEN Word(0)
                     ELSE @]
    /\ fnPc' = "implicit"
    /\ UNCHANGED <<genVars, codecVars, runVars, fn, arg, ret>>

\* "mantissa := or(mantissa, 0x800000)"
Asm_ImplicitOne ==
    /\ Scaled
    /\ fnPc = "implicit"
    /\ asm' = [asm EXCEPT !.mantissa = or(@, ShlBits(Format.mantissaBits, Word(1)))]
    /\ fnPc' = "shift"
    /\ UNCHANGED <<genVars, codecVars, runVars, fn, arg, ret>>

\* "let shift := sub(exponent, 127)", "let scaled_mantissa := mantissa"
Asm_Shift ==
    /\ Scaled
    /\ fnPc = "shift"
    /\ asm' = [asm EXCEPT !.shift = sub(asm.exponent, Word(Format.bias)),
                          !.scaled_mantissa = asm.mantissa]
    /\ fnPc' = "scale"
    /\ UNCHANGED <<genVars, codecVars, runVars, fn, arg, ret>>

\* "scaled_mantissa := mul(scaled_mantissa, 1000000)"
Asm_Scale ==
    /\ Scaled
    /\ fnPc = "scale"
    /\ asm' = [asm EXCEPT !.scaled_mantissa = mul(@, Format.scale)]
    /\ fnPc' = "shl"
    /\ UNCHANGED <<genVars, codecVars, runVars, fn, arg, ret>>

\* "if gt(shift, 0) { scaled_mantissa := shl(shift, scaled_mantissa) }"
Asm_ShiftLeft ==
    /\ Scaled
    /\ fnPc = "shl"
    /\ asm' = [asm EXCEPT !.scaled_mantissa =
                 IF gt(asm.shift, Word(0)) THEN shl(asm.shift, @) ELSE @]
    /\ fnPc' = "shr"
    /\ UNCHANGED <<genVars, codecVars, runVars, fn, arg, ret>>

\* "if lt(shift, 0) { scaled_mantissa := shr(sub(0, shift), scaled_mantissa) }"
Asm_ShiftRight ==
    /\ Scaled
    /\ fnPc = "shr"
    /\ asm' = [asm EXCEPT !.scaled_mantissa =
                 IF lt(asm.shift, Word(0)) THEN shr(sub(Word(0), asm.shift), @) ELSE @]
    /\ fnPc' = "sign"
    /\ UNCHANGED <<genVars, codecVars, runVars, fn, arg, ret>>

\* "if sign { scaled_mantissa := sub(0, scaled_mantissa) }"
Asm_Sign ==
    /\ Scaled
    /\ fnPc = "sign"
    /\ asm' = [asm EXCEPT !.scaled_mantissa =
                 IF asm.sign # Word(0) THEN sub(Word(0), @) ELSE @]
    /\ fnPc' = "assign"
    /\ UNCHANGED <<genVars, codecVars, runVars, fn, arg, ret>>

\* "scaled_value := scaled_mantissa" and "return (true, new_pos, scaled_value)":
\* the caller reads the value of the result type.
Asm_Return ==
    /\ Scaled
    /\ fnPc = "assign"
    /\ asm' = [asm EXCEPT !.scaled_value = asm.scaled_mantissa]
    /\ ret' = Returned(Cleaned(Format.bytes, asm.scaled_mantissa))
    /\ fnPc' = "returned"
    /\ UNCHANGED <<genVars, codecVars, runVars, fn, arg>>

FnNext ==
    \/ Call_sanitizeKeyword
    \/ Call_ProcessFieldNames
    \/ Call_GenerateImports
    \/ Scaled_Decode
    \/ Asm_Extract
    \/ Asm_SpecialCases
    \/ Asm_ImplicitOne
    \/ Asm_Shift
    \/ Asm_Scale
    \/ Asm_ShiftLeft
    \/ Asm_ShiftRight
    \/ Asm_Sign
    \/ Asm_Return

SpecFn == FnInit /\ [][FnNext]_vars

----------------------------------------------------------------------------
(* Properties of the pure functions, checked under SpecFn *)

\* uint, int, and uintN, intN for N a multiple of 8 from 8 to 256.
BuiltinNumericTypeNames ==
    {<<"u", "i", "n", "t">>, <<"i", "n", "t">>}
    \cup {<<"u", "i", "n", "t">> \o DigitsOf(8 * k) : k \in 1..32}
    \cup {<<"i", "n", "t">> \o DigitsOf(8 * k) : k \in 1..32}

\* The names the claim wants prefixed.
MustBeEscaped(name) ==
    /\ ~HasPrefix(name, <<"_">>)
    /\ \/ name \in solidityReservedKeywords
       \/ Len(name) > 0 /\ IsDigit(name[1])
       \/ name \in BuiltinNumericTypeNames

\* C15: sanitizeKeyword returns a result for every name; the result is the
\* name prefixed with "_" when the name is a reserved word, begins with a
\* digit or is a built-in numeric type name, and the name itself when it
\* already begins with "_".
C15_SanitizeKeyword ==
    (fn = "sanitizeKeyword" /\ fnPc = "returned") =>
        /\ ~ret.panic
        /\ MustBeEscaped(arg) => ret.value = <<"_">> \o arg
        /\ HasPrefix(arg, <<"_">>) => ret.value = arg

\* C16: for every field list of a message ProcessFieldNames returns, and the
\* final names it assigns are pairwise distinct.
C16_FieldNamesDistinct ==
    (fn = "ProcessFieldNames" /\ fnPc = "returned") =>
        /\ ~ret.panic
        /\ DOMAIN ret.value = 1..Len(arg)
        /\ \A i, j \in 1..Len(arg) : i # j => ret.value[i] # ret.value[j]

----------------------------------------------------------------------------
(* Generation of one message: generateFile runs generateMessageStruct on    *)
(* it, then generateMessageCodec.                                           *)

\* most fields of the message handed to generateMessageStruct
MaxMessageFields == 2

\* The parameter strings the message is generated under: the default
\* (decoder only), encoder only, and both.
MessageParameters ==
    { <<>>, << <<"generate", "encoder">> >>, << <<"generate", "all">> >> }

Packages == { <<>>, <<"q">> }

\* The fully qualified type name protoc writes into a field: a period, the
\* package if there is one, and the path of enclosing messages.
QualifiedTypeName(packageName, path) ==
    <<".">> \o Join((IF packageName = <<>> THEN <<>> ELSE <<packageName>>) \o path, <<".">>)

\* enum Color { A = 0; B = 1; } nested in Outer
NestedColor ==
    [name |-> <<"C">>,
     value |-> << [name |-> "A", number |-> 0], [name |-> "B", number |-> 1] >>]

\* message Point { uint32 v = 1; } nested in Outer
NestedPoint ==
    DescriptorProto(<<"P">>,
                    << FieldDescriptorProto(<<"v">>, 1, "uint32", "optional", FALSE, <<>>) >>,
                    <<>>, <<>>, FALSE)

\* The entry protoc synthesizes for "map<string, uint32> m".
NestedMapEntry ==
    DescriptorProto(<<"M", "E", "n", "t", "r", "y">>,
                    << FieldDescriptorProto(<<"k", "e", "y">>, 1, "string", "optional",
                                            FALSE, <<>>),
                       FieldDescriptorProto(<<"v", "a", "l", "u", "e">>, 2, "uint32",
                                            "optional", FALSE, <<>>) >>,
                    <<>>, <<>>, TRUE)

MessageFieldKinds ==
    {"enum", "enums", "message", "messages", "map", "uint32", "top", "strings"}

\* A field of Outer of the given kind, with the given number.
MessageField(kind, number, packageName) ==
    CASE kind = "enum" ->
           FieldDescriptorProto(<<"c">>, number, "enum", "optional", FALSE,
                                QualifiedTypeName(packageName, << <<"O">>, <<"C">> >>))
      [] kind = "enums" ->
           FieldDescriptorProto(<<"d">>, number, "enum", "repeated", TRUE,
                                QualifiedTypeName(packageName, << <<"O">>, <<"C">> >>))
      [] kind = "message" ->
           FieldDescriptorProto(<<"p">>, number, "message", "optional", FALSE,
                                QualifiedTypeName(packageName, << <<"O">>, <<"P">> >>))
      [] kind = "messages" ->
           FieldDescriptorProto(<<"r">>, number, "message", "repeated", FALSE,
                                QualifiedTypeName(packageName, << <<"O">>, <<"P">> >>))
      [] kind = "map" ->
           FieldDescriptorProto(<<"m">>, number, "message", "repeated", FALSE,
                                QualifiedTypeName(packageName,
                                    << <<"O">>, <<"M", "E", "n", "t", "r", "y">> >>))
      [] kind = "uint32" ->
           FieldDescriptorProto(<<"u">>, number, "uint32", "optional", FALSE, <<>>)
      [] kind = "top" ->
           FieldDescriptorProto(<<"t">>, number, "message", "optional", FALSE,
                                QualifiedTypeName(packageName, << <<"T">> >>))
      [] kind = "strings" ->
           FieldDescriptorProto(<<"s">>, number, "string", "repeated", FALSE, <<>>)

\* message Outer with nested Color, Point and the map entry, and up to
\* MaxMessageFields fields of distinct kinds numbered 1, 2, ...
OuterMessages(packageName) ==
    {DescriptorProto(<<"O">>,
                     [i \in 1..Len(ks) |-> MessageField(ks[i], i, packageName)],
                     <<NestedColor>>, <<NestedPoint, NestedMapEntry>>, FALSE) :
        ks \in {ms \in UNION {[1..n -> MessageFieldKinds] : n \in 0..MaxMessageFields} :
                   \A i, j \in 1..Len(ms) : i # j => ms[i] # ms[j]}}

MsgInit ==
    /\ parameter \in MessageParameters
    /\ g = ParseParameters(New, parameter).g
    /\ genPc = "parsed"
    /\ protoFile = NoFile
    /\ enumDescriptor = NoEnum
    /\ err = Nil
    /\ out = <<>>
    /\ CodecIdle
    /\ fn = "generateMessageStruct"
    /\ \E packageName \in Packages :
          arg \in {[descriptor |-> d, packageName |-> packageName] :
                      d \in OuterMessages(packageName)}
    /\ ret = NoResult
    /\ fnPc = "call"
    /\ asm = NoLocals
    /\ RunIdle

Call_generateMessageStruct ==
    /\ fnPc = "call"
    /\ fn = "generateMessageStruct"
    /\ LET Returned_generateMessageStruct(r) ==
               /\ g' = r.g
               /\ err' = r.err
               /\ out' = IF r.err = Nil THEN r.printed ELSE <<>>
       IN  Returned_generateMessageStruct(
               generateMessageStruct(g, arg.descriptor, arg.packageName))
    /\ fnPc' = "struct"
    /\ UNCHANGED <<parameter, genPc, protoFile, enumDescriptor, codecVars, runVars, fn, arg, ret, asm>>

Call_generateMessageCodec ==
    /\ fnPc = "struct"
    /\ err = Nil
    /\ LET Returned_generateMessageCodec(r) ==
               /\ g' = r.g
               /\ err' = r.err
               /\ out' = IF r.err = Nil THEN out \o r.printed ELSE <<>>
       IN  Returned_generateMessageCodec(
               generateMessageCodec(g, arg.descriptor, arg.packageName))
    /\ fn' = "generateMessageCodec"
    /\ fnPc' = "returned"
    /\ UNCHANGED <<parameter, genPc, protoFile, enumDescriptor, codecVars, runVars, arg, ret, asm>>

MsgNext == Call_generateMessageStruct \/ Call_generateMessageCodec

SpecMsg == MsgInit /\ [][MsgNext]_vars

----------------------------------------------------------------------------
(* Properties of the generation of one message, checked under SpecMsg *)

\* The lines written for the field f of the message: its layout slot and the
\* type names its encoder refers to.
ReferencesOf(f) ==
    {i \in 1..Len(out) :
        /\ out[i].kind \in {"slot", "codec", "cast"}
        /\ out[i].name = ProcessFieldNames(arg.descriptor.field).value[f.number]}

FieldsOfType(path) ==
    {i \in 1..Len(arg.descriptor.field) :
        arg.descriptor.field[i].type_name = QualifiedTypeName(arg.packageName, path)}

Declarations(kind, name) ==
    {i \in 1..Len(out) : out[i].kind = kind /\ out[i].name = name}

\* C17: Outer with nested enum Color and nested message Point yields exactly
\* one declaration each of Outer_Color and Outer_Point, and the layout slot
\* and the codec of every field of these types name the type Outer_Color,
\* respectively Outer_Point.
C17_FlatteningStability ==
    (fnPc = "returned" /\ fn = "generateMessageCodec") =>
        /\ err = Nil
        /\ Cardinality(Declarations("enum", <<"O", "_", "C">>)) = 1
        /\ Cardinality(Declarations("struct", <<"O", "_", "P">>)) = 1
        /\ \A i \in FieldsOfType(<< <<"O">>, <<"C">> >>) :
              \A k \in ReferencesOf(arg.descriptor.field[i]) :
                  out[k].type = <<"O", "_", "C">>
        /\ \A i \in FieldsOfType(<< <<"O">>, <<"P">> >>) :
              \A k \in ReferencesOf(arg.descriptor.field[i]) :
                  out[k].type = <<"O", "_", "P">>

\* The map field m of the message, if it has one.
MapFields == FieldsOfType(<< <<"O">>, <<"M", "E", "n", "t", "r", "y">> >>)

\* C18: for the map field m the generator holds one wrapper MEntry with the
\* fields key (1, string) and value (2, uint32), maps the entry type name to
\* MEntry, and writes m as MEntry[] in the layout and as MEntry in the codec.
C18_MapWrapper ==
    (fnPc = "returned" /\ fn = "generateMessageCodec") =>
        \A i \in MapFields :
            LET f       == arg.descriptor.field[i]
                wrapper == <<"M", "E", "n", "t", "r", "y">>
            IN  /\ err = Nil
                /\ arg.packageName \in DOMAIN g.helperMessages
                /\ DOMAIN g.helperMessages[arg.packageName] = {wrapper}
                /\ g.helperMessages[arg.packageName][wrapper].name = wrapper
                /\ g.helperMessages[arg.packageName][wrapper].field =
                       << FieldDescriptorProto(<<"k", "e", "y">>, 1, "string", "optional",
                                               FALSE, <<>>),
                          FieldDescriptorProto(<<"v", "a", "l", "u", "e">>, 2, "uint32",
                                               "optional", FALSE, <<>>) >>
                /\ g.messageMappings[TrimLeadingDot(f.type_name)] = wrapper
                /\ \E k \in ReferencesOf(f) : out[k].kind = "slot"
                /\ EncoderPrinted(g) => \E k \in ReferencesOf(f) : out[k].kind = "codec"
                /\ \A k \in ReferencesOf(f) :
                      /\ out[k].type = wrapper
                      /\ out[k].kind = "slot" => out[k].array = "[]"

----------------------------------------------------------------------------
(* Import paths, checked under SpecFn *)

\* The directories below the root that contain the file of a path.
DirectoryOf(path) ==
    LET segments == Split(path, "/") IN SubSeq(segments, 1, Len(segments) - 1)

\* The file an import path denotes when it is followed from a directory:
\* ".." leaves a directory, any other segment enters one.  Outside: the path
\* leaves the output root.
Outside == << <<"..">> >>

RECURSIVE Follow(_, _)
Follow(directory, segments) ==
    IF segments = <<>> THEN directory
    ELSE IF Head(segments) = <<".", ".">>
    THEN IF directory = <<>> THEN Outside
         ELSE Follow(SubSeq(directory, 1, Len(directory) - 1), Tail(segments))
    ELSE Follow(Append(directory, Head(segments)), Tail(segments))

Denotes(currentOutput, importPath) ==
    Follow(DirectoryOf(currentOutput), Split(importPath, "/"))

\* The number of leading ".." segments of an import path.
GoUpSegments(importPath) ==
    LET segments == Split(importPath, "/")
    IN  Cardinality({n \in 1..Len(segments) :
                        \A i \in 1..n : segments[i] = <<".", ".">>})

\* The length of the longest common directory prefix of two outputs.
CommonDirectories(a, b) ==
    Cardinality({n \in 1..Len(DirectoryOf(a)) :
                    /\ n <= Len(DirectoryOf(b))
                    /\ \A i \in 1..n : DirectoryOf(a)[i] = DirectoryOf(b)[i]})

\* C19: the import written for a dependency, followed from the directory of
\* the current unit's output file, denotes the output file generated for the
\* dependency, and goes up as many directories as the current output
\* directory lies below the longest common directory prefix.
C19_ImportDenotesOutput ==
    (fn = "GenerateImports" /\ fnPc = "returned") =>
        LET currentOutput    == GenerateOutputFileName(arg.protoFile)
            dependencyOutput == GenerateOutputFileName(arg.dependencyFile)
            importPath       == ret.value[Len(ret.value)]
        IN  /\ Len(ret.value) = 2
            /\ Denotes(currentOutput, importPath) = Split(dependencyOutput, "/")
            /\ GoUpSegments(importPath) =
                   Len(DirectoryOf(currentOutput))
                     - CommonDirectories(currentOutput, dependencyOutput)

----------------------------------------------------------------------------
(* Runs of Generate: the same parameters, two requests over the same        *)
(* files, the second run after the first.                                   *)

\* most files of a request
MaxFiles == 2

Runs == {1, 2}

RunParameters == { <<>>, << <<"generate", "all">> >> }

FileDescriptorProto(name, package, syntax, dependency, enum_type, message_type) ==
    [name |-> name, package |-> package, syntax |-> syntax, dependency |-> dependency,
     enum_type |-> enum_type, message_type |-> message_type]

\* The entry protoc synthesizes for "map<uint32, uint32> n".
SecondMapEntry ==
    DescriptorProto(<<"N", "E", "n", "t", "r", "y">>,
                    << FieldDescriptorProto(<<"k", "e", "y">>, 1, "uint32", "optional", FALSE, <<>>),
                       FieldDescriptorProto(<<"v", "a", "l", "u", "e">>, 2, "uint32", "optional", FALSE, <<>>) >>,
                    <<>>, <<>>, TRUE)

\* message O with the maps m and n, an enum field and a message field.
TwoMaps(packageName) ==
    DescriptorProto(<<"O">>,
                    << MessageField("map", 1, packageName),
                       FieldDescriptorProto(<<"n">>, 2, "message", "repeated", FALSE,
                           QualifiedTypeName(packageName, << <<"O">>, <<"N", "E", "n", "t", "r", "y">> >>)),
                       MessageField("enum", 3, packageName),
                       MessageField("message", 4, packageName) >>,
                    <<NestedColor>>, <<NestedPoint, NestedMapEntry, SecondMapEntry>>, FALSE)

\* message Q with a map m of its own and a field of the top-level enum.
OneMap(packageName) ==
    DescriptorProto(<<"Q">>,
                    << FieldDescriptorProto(<<"m">>, 1, "message", "repeated", FALSE,
                           QualifiedTypeName(packageName, << <<"Q">>, <<"M", "E", "n", "t", "r", "y">> >>)),
                       FieldDescriptorProto(<<"e">>, 2, "enum", "optional", FALSE,
                           QualifiedTypeName(packageName, << <<"E">> >>)) >>,
                    <<>>, <<NestedMapEntry>>, FALSE)

\* The entry protoc synthesizes for "map<uint32, bool> m".
OtherMapEntry ==
    DescriptorProto(<<"M", "E", "n", "t", "r", "y">>,
                    << FieldDescriptorProto(<<"k", "e", "y">>, 1, "uint32", "optional", FALSE, <<>>),
                       FieldDescriptorProto(<<"v", "a", "l", "u", "e">>, 2, "bool", "optional", FALSE, <<>>) >>,
                    <<>>, <<>>, TRUE)

\* message P with a map m whose key and value types are not those of Q's m.
OtherMap(packageName) ==
    DescriptorProto(<<"P">>,
                    << FieldDescriptorProto(<<"m">>, 1, "message", "repeated", FALSE,
                           QualifiedTypeName(packageName, << <<"P">>, <<"M", "E", "n", "t", "r", "y">> >>)) >>,
                    <<>>, <<OtherMapEntry>>, FALSE)

TopEnum(numbers) ==
    [name |-> <<"E">>,
     value |-> [i \in 1..Len(numbers) |->
                   [name |-> EnumValueNames[i], number |-> numbers[i]]]]

\* The files requests are made of: two files of package a that both have a
\* map m, a file without a package whose two messages both have a map m (of
\* different types), a proto2 file, a file whose enum skips a
\* value, a file with a field called int, a file that imports a Google type,
\* and a Google file.
RunFiles ==
    { FileDescriptorProto(<<"a", "/", "x", ".", "p", "r", "o", "t", "o">>, <<"a">>, "proto3", <<>>,
                          <<TopEnum(<<0, 1, 2>>)>>, <<TwoMaps(<<"a">>)>>),
      FileDescriptorProto(<<"a", "/", "y", ".", "p", "r", "o", "t", "o">>, <<"a">>, "proto3", << <<"a", "/", "x", ".", "p", "r", "o", "t", "o">> >>,
                          <<>>, <<OneMap(<<"a">>)>>),
      FileDescriptorProto(<<"y", ".", "p", "r", "o", "t", "o">>, <<>>, "proto3", <<>>,
                          <<TopEnum(<<0, 1>>)>>, <<OneMap(<<>>), OtherMap(<<>>)>>),
      FileDescriptorProto(<<"z", ".", "p", "r", "o", "t", "o">>, <<>>, "proto2", <<>>, <<>>, <<>>),
      FileDescriptorProto(<<"e", ".", "p", "r", "o", "t", "o">>, <<"b">>, "proto3", <<>>,
                          <<TopEnum(<<0, 2>>)>>, <<>>),
      FileDescriptorProto(<<"p", ".", "p", "r", "o", "t", "o">>, <<"b">>, "proto3", <<>>, <<>>,
                          << DescriptorProto(<<"R">>,
                                 << FieldDescriptorProto(<<"i", "n", "t">>, 1, "uint32", "optional",
                                                         FALSE, <<>>) >>,
                                 <<>>, <<>>, FALSE) >>),
      FileDescriptorProto(<<"t", ".", "p", "r", "o", "t", "o">>, <<"b">>, "proto3",
                          << <<"g", "o", "o", "g", "l", "e", "/", "p", "r", "o", "t", "o", "b", "u", "f", "/", "t", "i", "m", "e", "s", "t", "a", "m", "p", ".", "p", "r", "o", "t", "o">> >>, <<>>,
                          << DescriptorProto(<<"S">>,
                                 << FieldDescriptorProto(<<"u">>, 1, "uint32", "optional",
                                                         FALSE, <<>>) >>,
                                 <<>>, <<>>, FALSE) >>),
      FileDescriptorProto(<<"g", "o", "o", "g", "l", "e", "/", "p", "r", "o", "t", "o", "b", "u", "f", "/", "t", "i", "m", "e", "s", "t", "a", "m", "p", ".", "p", "r", "o", "t", "o">>, <<"g", "o", "o", "g", "l", "e", ".", "p", "r", "o", "t", "o", "b", "u", "f">>, "proto3",
                          <<>>, <<>>, <<>>) }

\* The proto files of a request: up to MaxFiles distinct files.
ProtoFileLists ==
    {fs \in UNION {[1..n -> RunFiles] : n \in 0..MaxFiles} :
        \A i, j \in 1..Len(fs) : i # j => fs[i] # fs[j]}

CodeGeneratorRequest(proto_file, file_to_generate) ==
    [proto_file |-> proto_file, file_to_generate |-> file_to_generate]

NamesOf(fs) == {fs[i].name : i \in 1..Len(fs)}

\* Requests: any of the files may be asked for.
Requests ==
    UNION {{CodeGeneratorRequest(fs, names) : names \in SUBSET NamesOf(fs)} :
              fs \in ProtoFileLists}

\* The second request: the first again, or the same files with one of the
\* files of the first asked for alone.
SecondRequests(first) ==
    {first} \cup {CodeGeneratorRequest(first.proto_file, {name}) :
                     name \in first.file_to_generate}

RunInit ==
    /\ parameter \in RunParameters
    /\ g = ParseParameters(New, parameter).g
    /\ genPc = "parsed"
    /\ protoFile = NoFile
    /\ enumDescriptor = NoEnum
    /\ err = Nil
    /\ out = <<>>
    /\ CodecIdle
    /\ FnIdle
    /\ \E first \in Requests : \E second \in SecondRequests(first) :
          request = <<first, second>>
    /\ run = [r \in Runs |-> Called(g)]

\* The second call of Generate is made when the first has returned.
Active(r) == r = 1 \/ run[1].pc = "done"

CurrentFile(r) == request[r].proto_file[run[r].cur]

\* Generate up to the loop over the files.
Generate_Start(r) ==
    /\ Active(r)
    /\ run[r].pc = "start"
    /\ run' = [run EXCEPT ![r] =
                 IF UsesGoogleTypes(request[r])
                 THEN [@ EXCEPT !.pc = "loop",
                                !.response = <<SharedGoogleUnit(run[r].g)>>,
                                !.g = [@ EXCEPT !.googleProtobufGenerated = TRUE]]
                 ELSE [@ EXCEPT !.pc = "loop"]]
    /\ UNCHANGED <<genVars, codecVars, fnVars, request>>

\* The head of the loop: a file that is not asked for is skipped.
Generate_NextFile(r) ==
    /\ Active(r)
    /\ run[r].pc = "loop"
    /\ \E i \in NextFiles(request[r].proto_file, run[r].visited) :
          run' = [run EXCEPT ![r] =
                    IF request[r].proto_file[i].name \in request[r].file_to_generate
                    THEN [@ EXCEPT !.pc = "clear_before", !.cur = i]
                    ELSE [@ EXCEPT !.visited = @ \cup {i}]]
    /\ UNCHANGED <<genVars, codecVars, fnVars, request>>

\* "for wrapperName := range packageMessages": one wrapper is deleted, in
\* whatever order the map is walked.
Generate_DeleteWrapper(r) ==
    /\ Active(r)
    /\ run[r].pc \in {"clear_before", "clear_after"}
    /\ CurrentFile(r).package \in DOMAIN run[r].g.helperMessages
    /\ \E wrapperName \in DOMAIN run[r].g.helperMessages[CurrentFile(r).package] :
          run' = [run EXCEPT ![r].g.helperMessages =
                     DeleteWrapper(@, CurrentFile(r).package, wrapperName)]
    /\ UNCHANGED <<genVars, codecVars, fnVars, request>>

\* The end of "Clear helper messages", before and after the file.
Generate_Cleared(r) ==
    /\ Active(r)
    /\ run[r].pc \in {"clear_before", "clear_after"}
    /\ \/ CurrentFile(r).package \notin DOMAIN run[r].g.helperMessages
       \/ /\ CurrentFile(r).package \in DOMAIN run[r].g.helperMessages
          /\ DOMAIN run[r].g.helperMessages[CurrentFile(r).package] = {}
    /\ run' = [run EXCEPT ![r] =
                 [@ EXCEPT !.g.helperMessages =
                               IF CurrentFile(r).package \in DOMAIN @
                               THEN DeletePackage(@, CurrentFile(r).package)
                               ELSE @,
                           !.pc = IF @ = "clear_before" THEN "file" ELSE "loop",
                           !.visited = IF run[r].pc = "clear_after"
                                       THEN @ \cup {run[r].cur} ELSE @]]
    /\ UNCHANGED <<genVars, codecVars, fnVars, request>>

\* Generate after its call of generateFile for the current file.
Generate_Returned(state, res) ==
    IF res.err = Panic THEN Unwound([state EXCEPT !.g = res.g])
    ELSE IF res.err # Nil THEN ReturnError([state EXCEPT !.g = res.g], res.err)
    ELSE [state EXCEPT !.g = res.g,
                       !.pc = "clear_after",
                       !.response = IF res.some THEN Append(@, res.unit) ELSE @]

\* "responseFile, err := g.generateFile(protoFile)" and what follows it.
Generate_File(r) ==
    /\ Active(r)
    /\ run[r].pc = "file"
    /\ run' = [run EXCEPT ![r] =
                 Generate_Returned(run[r], generateFileUnit(run[r].g, CurrentFile(r)))]
    /\ UNCHANGED <<genVars, codecVars, fnVars, request>>

\* "return response, nil"
Generate_Return(r) ==
    /\ Active(r)
    /\ run[r].pc = "loop"
    /\ NextFiles(request[r].proto_file, run[r].visited) = {}
    /\ run' = [run EXCEPT ![r] = [@ EXCEPT !.pc = "done", !.result = "response"]]
    /\ UNCHANGED <<genVars, codecVars, fnVars, request>>

RunNext ==
    \/ \E r \in Runs : Generate_Start(r)
    \/ \E r \in Runs : Generate_NextFile(r)
    \/ \E r \in Runs : Generate_DeleteWrapper(r)
    \/ \E r \in Runs : Generate_Cleared(r)
    \/ \E r \in Runs : Generate_File(r)
    \/ \E r \in Runs : Generate_Return(r)

SpecRun == RunInit /\ [][RunNext]_vars

----------------------------------------------------------------------------
(* Properties of Generate, checked under SpecRun *)

\* The files of the request of run r that are asked for, by index.
Requested(r) ==
    {i \in 1..Len(request[r].proto_file) :
        request[r].proto_file[i].name \in request[r].file_to_generate}

\* What generateFile does with file i of the request of run r.
Outcome(r, i) == generateFileUnit(g, request[r].proto_file[i])

\* The files asked for whose validation or generation fails.
Failing(r) == {i \in Requested(r) : Outcome(r, i).err # Nil}

FirstFailing(r) == CHOOSE i \in Failing(r) : \A j \in Failing(r) : i <= j

\* C12: when a file that is asked for fails, Generate returns the error of
\* the first such file and no response: no file of the response built so far
\* is returned (a panic returns nothing at all); when no file fails it
\* returns a response.
C12_FailFast ==
    \A r \in Runs :
        run[r].pc = "done" =>
            IF Failing(r) = {} THEN run[r].result = "response"
            ELSE /\ run[r].response = <<>>
                 /\ IF Outcome(r, FirstFailing(r)).err = Panic
                    THEN run[r].result = "panic"
                    ELSE /\ run[r].result = "error"
                         /\ run[r].err = Outcome(r, FirstFailing(r)).err

\* A run that wrote a file and then failed on the next one.
C12_Witness ==
    /\ run[1].pc = "done"
    /\ run[1].result = "error"
    /\ Len(request[1].proto_file) = 2
    /\ Requested(1) = {1, 2}
    /\ Outcome(1, 1).some
    /\ Outcome(1, 2).err # Nil

----------------------------------------------------------------------------
(* The scaled value of a float or double, checked under SpecFn *)

\* (8 + top) * scale, eight times the scaled mantissa 1.top
EightFold == mul(Word(8 + arg.top), Format.scale)

\* The power of two EightFold is to be multiplied by.
ScaledShift == arg.exponent - Format.bias - 3

\* |v| * scale, cut to an integer
ScaledMagnitude ==
    IF ScaledShift >= 0 THEN ShlBits(ScaledShift, EightFold)
    ELSE ShrBits(0 - ScaledShift, EightFold)

\* |v| * scale is an integer
ScaledExactly ==
    ScaledShift >= 0 \/ ShlBits(0 - ScaledShift, ScaledMagnitude) = EightFold

\* The largest value of the result type.
MaxScaled == Ones(8 * Format.bytes - 1)

\* C20: the float helper returns v * 10^6 for a finite v whose scaled value
\* is an integer of the result type (1.5 gives 1500000), 0 for zero and
\* denormals, and the largest int32 for infinity and NaN; the double helper
\* does the same with 10^15 and int64.
C20_FixedPointScaling ==
    (fnPc = "returned" /\ fn \in {"decode_float_scaled", "decode_double_scaled"}) =>
        IF arg.exponent = 0 THEN ret.value = Word(0)
        ELSE IF arg.exponent = Format.exponentMask THEN ret.value = MaxScaled
        ELSE (ScaledExactly /\ ~ gt(ScaledMagnitude, MaxScaled)) =>
                ret.value = IF arg.sign = 1 THEN sub(Word(0), ScaledMagnitude)
                            ELSE ScaledMagnitude

----------------------------------------------------------------------------
(* The field-number bound of the printed decoder, checked under Spec *)

\* C21: with strict field-number validation disabled, a message whose fields
\* are numbered 1 and 3 is accepted by generateFile, and the printed decode
\* accepts the buffer its own encoder wrote, which carries field 1 and then
\* field 3: the bound on field_number admits every declared field number.
C21_GapAccepted ==
    (mode = "roundtrip" /\ pc = "done" /\ ~g.strictFieldNumberValidation
       /\ FieldNumbers(fields) = {1, 3})
        => /\ generateFile(g, File("proto3", <<Descriptor("M", fields, <<>>)>>)) = Nil
           /\ success

----------------------------------------------------------------------------
(* The generate option, checked under SpecMsg *)

\* The kinds of the lines written for the message.
PrintedKinds == {out[i].kind : i \in 1..Len(out)}

\* The values of the generate option the model hands to ParseParameters.
GenerateValues == {"all", "decoder", "encoder", "none", ""}

\* C22: the codec library of a message with fields holds no encode routine
\* under generate=decoder, no decode routine and none of decode_field and
\* check_key under generate=encoder, and both routines under generate=all;
\* every other value of the option is refused with an error.
C22_GenerateSelectsHalf ==
    (fnPc = "returned" /\ fn = "generateMessageCodec" /\ err = Nil
       /\ Len(arg.descriptor.field) > 0)
        => /\ g.generateFlag = "decoder"
                => ("decode" \in PrintedKinds /\ "encode" \notin PrintedKinds)
           /\ g.generateFlag = "encoder"
                => /\ "encode" \in PrintedKinds
                   /\ PrintedKinds \cap {"decode", "decode_field", "check_key"} = {}
           /\ g.generateFlag = "all"
                => {"decode", "encode"} \subseteq PrintedKinds
           /\ \A v \in GenerateValues :
                 (ParseParameters(New, << <<"generate", v>> >>).err = Nil)
                     <=> v \in {"all", "decoder", "encoder"}

----------------------------------------------------------------------------
(* check_key, checked under Spec *)

\* The wire category with which a field appears on the wire.
WireCategory(field) ==
    CASE isFieldRepeated(field) /\ isFieldPacked(field) -> "LengthDelimited"
      [] field.type \in {"string", "bytes", "message"} -> "LengthDelimited"
      [] field.type \in {"fixed64", "sfixed64", "double"} -> "Bits64"
      [] field.type \in {"fixed32", "sfixed32", "float"} -> "Bits32"
      [] OTHER -> "Varint"

\* The key the next iteration of decode's loop reads.
NextKey == decode_key(pos, buf)

\* C23: at every key decode reads, check_key(field_number, wire_type) is true
\* exactly when the message declares the field and wire_type is the category
\* with which the field appears on the wire (length-delimited for a packed
\* array), and decode returns failure when check_key is false.
C23_CheckKey ==
    [][(pc = "loop" /\ LoopGuard(pos, initial_pos, len) /\ NextKey.success)
          => /\ check_key(fields, NextKey.field_number, NextKey.wire_type)
                  <=> /\ NextKey.field_number \in FieldNumbers(fields)
                      /\ NextKey.wire_type
                            = WireCategory(FieldByNumber(fields, NextKey.field_number))
             /\ ~check_key(fields, NextKey.field_number, NextKey.wire_type)
                  => (pc' = "done" /\ ~success')]_vars

----------------------------------------------------------------------------
(* C24 *)

\* The length prefix of the packed array in the encoder's output: the varint
\* that starts right after the one-byte key.
PackedPrefix == decode_varint(1, buf)

\* C24: for a packed numeric array the encoder emits nothing when the array is
\* empty, and otherwise the key once, a length prefix and all the elements,
\* where the prefix is a valid varint whose value is the exact number of
\* payload bytes written after it, for every payload size.
C24_PackedLengthPrefix ==
    (mode = "roundtrip" /\ pc = "encoded" /\ Len(fields) = 1 /\ isFieldRepeated(fields[1]))
        => IF x[fields[1].number] = <<>>
           THEN buf = <<>>
           ELSE /\ SubSeq(buf, 1, 1) = encode_key(fields[1].number, "LengthDelimited")
                /\ PackedPrefix.success
                /\ PackedPrefix.val = Len(buf) - PackedPrefix.pos
                /\ SubSeq(buf, PackedPrefix.pos + 1, Len(buf))
                      = EncodeElements(fields[1], x[fields[1].number])

----------------------------------------------------------------------------
(* C25 *)

\* The tables of the Generator that resolve type names: the flatten maps of
\* nested enums and messages (the second also holds the wrapper of each map
\* field) and the map-field mappings.
ResolutionTables(gen) == <<gen.enumMappings, gen.messageMappings, gen.mapFieldMappings>>

\* C25: the type-resolution tables are complete before the first file is
\* generated: once a call of Generate has reached its loop over the files, no
\* step of it adds, changes or removes an entry of them.
C25_TablesReadOnly ==
    [][\A r \in Runs :
          run[r].pc \notin {"start", "done"}
              => ResolutionTables(run'[r].g) = ResolutionTables(run[r].g)]_vars

----------------------------------------------------------------------------
(* C26 *)

\* The enum the enum-typed field of the codec schemas refers to.
FieldEnum == TopEnum(<<0, 1, 2>>)

\* The largest number the enum declares.
EnumMax(enum) ==
    CHOOSE m \in {enum.value[i].number : i \in 1..Len(enum.value)} :
        \A i \in 1..Len(enum.value) : enum.value[i].number <= m

\* C26: the decoder checks the value of an enum-typed field against the
\* largest value its enum declares: decode of the key of the field followed
\* by the one-byte value v succeeds exactly when 0 < v <= that maximum, and
\* then stores v.
C26_EnumRangeCheck ==
    (pc = "done" /\ Len(fields) = 1 /\ fields[1].type = "enum" /\ ~isFieldRepeated(fields[1])
        /\ initial_pos = 0 /\ len = 2 /\ Len(buf) = 2
        /\ SubSeq(buf, 1, 1) = encode_key(fields[1].number, "Varint") /\ buf[2] < 128)
        => /\ success <=> buf[2] \in 1..EnumMax(FieldEnum)
           /\ success => instance[fields[1].number] = buf[2]

----------------------------------------------------------------------------
(* C27 *)

\* The printed decoding of field f applied to the bytes the encoder's
\* primitive writes for the value v.
DecodedBack(f, v) == generateFieldDecoding(f, 0, typeToEncodeSol(f, v), DefaultInstance(fields))

\* C27: for every field of the message, the wire type the encoder writes in
\* the field's key is the one check_key accepts for that field, and the
\* primitive that writes a singular value is the inverse of the one the
\* decoder reads it with.
C27_EncoderMatchesDecoder ==
    (mode = "roundtrip" /\ pc = "encoded")
        => \A i \in 1..Len(fields) :
              /\ check_key(fields, fields[i].number, EncodeKeyWireType(fields[i]))
              /\ ~isFieldRepeated(fields[i])
                    => /\ DecodedBack(fields[i], x[fields[i].number]).success
                       /\ DecodedBack(fields[i], x[fields[i].number]).instance[fields[i].number]
                             = x[fields[i].number]

----------------------------------------------------------------------------
(* C28 *)

\* C28: decode terminates: an iteration of its loop that does not return
\* strictly advances the cursor, and every call that entered the loop
\* reaches its return.
C28_DecodeTerminates ==
    /\ [][(pc = "loop" /\ pc' = "loop") => pos' > pos]_vars
    /\ (pc = "loop") ~> (pc = "done")

\* decode returned after two iterations that each advanced the cursor.
C28_Witness == pc = "done" /\ success /\ Len(keys) >= 2 /\ pos = initial_pos + len

----------------------------------------------------------------------------
(* C29 *)

\* The text of an entry after its first "=": the parts strings.Split cut it
\* into from the second on, with the "=" between them.
RECURSIVE ValueAsGiven(_, _)
ValueAsGiven(keyvalue, i) ==
    IF i = Len(keyvalue) THEN keyvalue[i]
    ELSE keyvalue[i] \o "=" \o ValueAsGiven(keyvalue, i + 1)

\* C29: ParseParameters is total: on every parameter string, entries without
\* "=" and with more than one included, it returns (an error or nil) and
\* never aborts, and when it returns nil a license entry has been applied
\* with its value exactly as given.
C29_ParseParametersTotal ==
    [][genPc = "new"
          => /\ err' # Panic
             /\ (err' = Nil /\ Len(parameter) = 1 /\ parameter[1][1] = "license")
                   => g'.licenseString = ValueAsGiven(parameter[1], 2)]_vars

----------------------------------------------------------------------------
(* C30 *)

\* The wrapper name under which the layout slot of a map field is emitted.
WrapperNameOf(field) == Title(field.name) \o <<"E", "n", "t", "r", "y">>

\* C30: when a file has been generated, every map field of its messages has
\* the key and value types of the one wrapper registered for the package
\* under the name its layout slot was emitted with.
C30_WrapperConsistency ==
    \A r \in DOMAIN run :
        (run[r].pc = "clear_after" /\ CurrentFile(r).package \in DOMAIN run[r].g.helperMessages)
            => \A i \in 1..Len(CurrentFile(r).message_type) :
                  \A j \in 1..Len(CurrentFile(r).message_type[i].field) :
                      LET descriptor == CurrentFile(r).message_type[i]
                          field      == descriptor.field[j]
                          wrappers   == run[r].g.helperMessages[CurrentFile(r).package]
                      IN  (isMapField(field, descriptor) /\ WrapperNameOf(field) \in DOMAIN wrappers)
                             => /\ wrappers[WrapperNameOf(field)].field[1].type
                                      = getMapKeyValueTypes(field, descriptor).keyType
                                /\ wrappers[WrapperNameOf(field)].field[2].type
                                      = getMapKeyValueTypes(field, descriptor).valueType

====
